---- MODULE Spec2Model ----
(***************************************************************************)
(* A model of vm_runner.py: the VMManager class (the locator of the        *)
(* VBoxManage binary and the per-VM operations built on it) and the        *)
(* dispatch part of main().                                                *)
(*                                                                         *)
(* Every Python method is an operator of the same name.  Its parameters    *)
(* are the method's arguments followed by the answers of the environment   *)
(* to the external calls the method may make (os.path.exists,              *)
(* subprocess.run, subprocess.Popen), in the order the method makes them.  *)
(* Its value is a record [ret, ev]: the value the method returns and the   *)
(* sequence of events (method calls, existence checks, commands launched)  *)
(* it produced, in program order.                                          *)
(*                                                                         *)
(* Python values are records [k, v]: k is the type tag, v a sequence.      *)
(* A Python string is a sequence of tokens: a token is either one special  *)
(* character or marker, or a word that contains none of them.              *)
(***************************************************************************)
EXTENDS Integers, Sequences, FiniteSets, TLC

VARIABLES
    phase,            \* "new": VMManager() not yet run; "ready": constructed, idle;
                      \* "done": an operation has returned; "exited": main() has ended;
                      \* "concurrent": constructed and called from several threads
    vboxmanage_path,  \* self.vboxmanage_path
    last,             \* the operation that ran last: [fn, ret, ev]
    exit_code,        \* the process exit status set by main(), -1 before
    threads           \* the callers that use one manager concurrently: for each,
                      \* its call stack, its events and the answers it got

vars == <<phase, vboxmanage_path, last, exit_code, threads>>

---------------------------------------------------------------------------
(* Python values *)

PyNone == [k |-> "None", v |-> <<>>]
PyTrue == [k |-> "bool", v |-> <<"True">>]
PyFalse == [k |-> "bool", v |-> <<"False">>]
PyBool(b) == IF b THEN PyTrue ELSE PyFalse
PyInt0 == [k |-> "int", v |-> <<"0">>]
PyInt1 == [k |-> "int", v |-> <<"1">>]
PyStr(s) == [k |-> "str", v |-> s]
PyList(l) == [k |-> "list", v |-> l]

\* an exception on its way to the handlers of the method
PyRaised(what) == [k |-> "raise", v |-> <<what>>]

\* Python truthiness: None, False, 0, "" and [] are falsy
Truthy(x) ==
    CASE x.k = "None" -> FALSE
      [] x.k = "bool" -> x.v = <<"True">>
      [] x.k = "int" -> x.v # <<"0">>
      [] OTHER -> Len(x.v) > 0

\* Python == on the values above
PyEq(x, y) == x.k = y.k /\ x.v = y.v

R(ret, ev) == [ret |-> ret, ev |-> ev]

---------------------------------------------------------------------------
(* Events *)

NoTimeout == 0

\* a method of VMManager was entered
Call(fn, vm, args) ==
    [kind |-> "call", name |-> fn, bin |-> "-", vm |-> vm, args |-> args,
     timeout |-> NoTimeout, out |-> "-"]

\* a method of VMManager returned ret
Return(fn, vm, ret) ==
    [kind |-> "return", name |-> fn, bin |-> "-", vm |-> vm, args |-> ret.v,
     timeout |-> NoTimeout, out |-> ret.k]

\* os.path.exists(path) answered ex
Exists(path, ex) ==
    [kind |-> "exists", name |-> path, bin |-> "-", vm |-> "-", args |-> <<>>,
     timeout |-> NoTimeout, out |-> IF ex THEN "True" ELSE "False"]

\* an external command was launched: binary, first argument, VM, the
\* arguments that tell it from the others, its timeout, and how it ended
Run(bin, sub, vm, args, timeout, out) ==
    [kind |-> "run", name |-> sub, bin |-> bin, vm |-> vm, args |-> args,
     timeout |-> timeout, out |-> out]

\* a method: its entry, what its body did, its return
Method(fn, vm, args, body) ==
    R(body.ret, <<Call(fn, vm, args)>> \o body.ev \o <<Return(fn, vm, body.ret)>>)

\* how a string or None argument is shown in a call event
Repr(x) == IF x.k = "None" THEN "None" ELSE IF x.v = <<>> THEN "''" ELSE x.v[1]

RECURSIVE SelectEv(_, _)
SelectEv(ev, kind) ==
    IF ev = <<>> THEN <<>>
    ELSE IF Head(ev).kind = kind THEN <<Head(ev)>> \o SelectEv(Tail(ev), kind)
    ELSE SelectEv(Tail(ev), kind)

Runs(ev) == SelectEv(ev, "run")
Returns(ev) == SelectEv(ev, "return")

RECURSIVE SelectName(_, _)
SelectName(ev, names) ==
    IF ev = <<>> THEN <<>>
    ELSE IF Head(ev).name \in names THEN <<Head(ev)>> \o SelectName(Tail(ev), names)
    ELSE SelectName(Tail(ev), names)

---------------------------------------------------------------------------
(* The environment's answers *)

\* subprocess.run: exit code 0; non-zero exit code; TimeoutExpired;
\* FileNotFoundError; any other OSError
RunOutcomes == {"ok", "nonzero", "timeout", "oserror"}
PathOutcomes == RunOutcomes \cup {"notfound"}

\* a file candidate: whether it exists and, if so, how its probe ends
FileAnswers ==
    {[exists |-> FALSE, out |-> "-"]} \cup {[exists |-> TRUE, out |-> o] : o \in RunOutcomes}

VMNames == {"web-01", "db-01"}
Users == {"admin"}

---------------------------------------------------------------------------
(* VMManager.find_vboxmanage *)

ProbeTimeout == 10

well_known_path == "C:\\Program Files\\Oracle\\VirtualBox\\VBoxManage.exe"

common_paths ==
    << "C:\\Program Files\\Oracle\\VirtualBox\\VBoxManage.exe",
       "C:\\Program Files (x86)\\Oracle\\VirtualBox\\VBoxManage.exe",
       "/usr/bin/VBoxManage",
       "/usr/local/bin/VBoxManage",
       "/Applications/VirtualBox.app/Contents/MacOS/VBoxManage" >>

path_name == "VBoxManage"

probe(bin, out) == Run(bin, "--version", "-", <<>>, ProbeTimeout, out)

\* a faulty variant: the loop probes its entries without looking whether
\* they exist
RECURSIVE scan_common_paths_probes_all(_, _)
scan_common_paths_probes_all(i, answers) ==
    IF i > Len(common_paths) THEN R(PyNone, <<>>)
    ELSE
        LET path == common_paths[i]
            a == answers[i]
            out == IF a.exists THEN a.out ELSE "nonzero"
            rest == scan_common_paths_probes_all(i + 1, answers)
        IN  CASE out = "ok" -> R(PyStr(<<path>>), <<probe(path, out)>>)
              [] out \in {"nonzero", "timeout"} -> R(rest.ret, <<probe(path, out)>> \o rest.ev)
              [] OTHER -> R(PyNone, <<probe(path, out)>>)

\* the loop over common_paths, from entry i on; falling off the end raises
\* FileNotFoundError, which the outer handler turns into None
RECURSIVE scan_common_paths(_, _)
scan_common_paths(i, answers) ==
    IF i > Len(common_paths) THEN R(PyNone, <<>>)
    ELSE
        LET path == common_paths[i]
            a == answers[i]
            rest == scan_common_paths(i + 1, answers)
        IN  IF a.exists THEN
                CASE a.out = "ok" ->
                        R(PyStr(<<path>>), <<Exists(path, TRUE), probe(path, a.out)>>)
                  [] a.out \in {"nonzero", "timeout"} ->
                        R(rest.ret, <<Exists(path, TRUE), probe(path, a.out)>> \o rest.ev)
                  [] OTHER ->
                        R(PyNone, <<Exists(path, TRUE), probe(path, a.out)>>)
            ELSE R(rest.ret, <<Exists(path, FALSE)>> \o rest.ev)

\* a faulty variant: a PATH probe that succeeds does not end the search, and
\* a common path that works is preferred
scan_from_PATH_scans_on(pa, answers) ==
    LET rest == scan_common_paths(1, answers)
    IN  CASE pa = "ok" ->
                R(IF Truthy(rest.ret) THEN rest.ret ELSE PyStr(<<path_name>>),
                  <<probe(path_name, pa)>> \o rest.ev)
          [] pa \in {"nonzero", "notfound"} ->
                R(rest.ret, <<probe(path_name, pa)>> \o rest.ev)
          [] OTHER -> R(PyNone, <<probe(path_name, pa)>>)

\* the PATH candidate and what follows it
scan_from_PATH(pa, answers) ==
    LET rest == scan_common_paths(1, answers)
    IN  CASE pa = "ok" -> R(PyStr(<<path_name>>), <<probe(path_name, pa)>>)
          [] pa \in {"nonzero", "notfound"} ->
                R(rest.ret, <<probe(path_name, pa)>> \o rest.ev)
          [] OTHER -> R(PyNone, <<probe(path_name, pa)>>)

\* wk: the answer for the well-known path, pa: the outcome of the PATH probe,
\* answers: the answers for common_paths
find_vboxmanage(wk, pa, answers) ==
    LET rest == scan_from_PATH(pa, answers)
        chk == Exists(well_known_path, wk.exists)
        run == probe(well_known_path, wk.out)
    IN  Method("find_vboxmanage", "-", <<>>,
            IF wk.exists THEN
                CASE wk.out = "ok" -> R(PyStr(<<well_known_path>>), <<chk, run>>)
                  [] wk.out \in {"nonzero", "timeout"} -> R(rest.ret, <<chk, run>> \o rest.ev)
                  [] OTHER -> R(PyNone, <<chk, run>>)
            ELSE R(rest.ret, <<chk>> \o rest.ev))

\* the answers find_vboxmanage can get: the well-known path is also the first
\* entry of common_paths, so both exist or neither does
LocateAnswers ==
    {a \in [wk : FileAnswers, pa : PathOutcomes,
            common : [1..Len(common_paths) -> FileAnswers]] :
        a.common[1].exists = a.wk.exists}

---------------------------------------------------------------------------
(* Python string methods, on token sequences *)

NL == "\n"
QUOTE == "\""
EQUALS == "="
SPACE == " "

Whitespace == {SPACE, NL}

\* the positions where sub occurs in s
Occurs(s, sub) == {i \in 1..(Len(s) - Len(sub) + 1) : SubSeq(s, i, i + Len(sub) - 1) = sub}

\* sub in s
Contains(s, sub) == Occurs(s, sub) # {}

StartsWith(s, p) == Len(s) >= Len(p) /\ SubSeq(s, 1, Len(p)) = p

RECURSIVE LStripIf(_, _)
LStripIf(s, drop) ==
    IF Len(s) > 0 /\ Head(s) \in drop THEN LStripIf(Tail(s), drop) ELSE s

RECURSIVE RStripIf(_, _)
RStripIf(s, drop) ==
    IF Len(s) > 0 /\ s[Len(s)] \in drop THEN RStripIf(SubSeq(s, 1, Len(s) - 1), drop)
    ELSE s

\* s.strip() and s.strip(c)
Strip(s) == RStripIf(LStripIf(s, Whitespace), Whitespace)
StripChar(s, c) == RStripIf(LStripIf(s, {c}), {c})

\* s.split(sep): never empty
RECURSIVE Split(_, _)
Split(s, sep) ==
    IF ~Contains(s, sep) THEN <<s>>
    ELSE LET i == CHOOSE j \in Occurs(s, sep) : \A h \in Occurs(s, sep) : j <= h
         IN  <<SubSeq(s, 1, i - 1)>> \o Split(SubSeq(s, i + Len(sep), Len(s)), sep)

---------------------------------------------------------------------------
(* What the commands print *)

\* stdout of "showvminfo <vm> --machinereadable"
InfoTexts ==
    { << "name", EQUALS, QUOTE, "vm", QUOTE, NL,
         "VMState", EQUALS, QUOTE, "running", QUOTE, NL,
         "storagecontrollername0", EQUALS, QUOTE, "IDE", QUOTE, NL >>,
      << "name", EQUALS, QUOTE, "vm", QUOTE, NL,
         "storagecontrollername0", EQUALS, QUOTE, "NVMe", QUOTE, NL,
         "StorageControllerName1", EQUALS, QUOTE, "SATA", QUOTE, NL,
         "VMState", EQUALS, QUOTE, "poweroff", QUOTE, NL,
         "VMState", EQUALS, QUOTE, "aborted", QUOTE, NL >>,
      << "name", EQUALS, QUOTE, "vm", QUOTE, NL,
         "VMStateChangeTime", EQUALS, QUOTE, "2024", QUOTE, NL >>,
      << "storagecontrollername0", SPACE, "IDE", NL,
         "VMState", EQUALS, "running", NL >>,
      << "storagecontrollername0", EQUALS, QUOTE, QUOTE, SPACE, "IDE", NL,
         "VMState", EQUALS, QUOTE, QUOTE, NL >>,
      << >> }

\* the markers of "guestproperty get": "Value: " ends with a space
VALUE == <<"Value:", SPACE>>
NOVALUE == <<"No value set!">>

\* stdout of "guestproperty get <vm> /VirtualBox/GuestInfo/Net/0/V4/IP"
IpTexts ==
    { << "Value:", SPACE, "10.0.2.15", NL >>,
      << "No value set!", NL >>,
      << "Value:", SPACE, NL >>,
      << "Value:", SPACE, "Value:", SPACE, NL >>,
      << "Value:", SPACE, "Value:", SPACE, "x", NL >>,
      << "garbage", NL >>,
      << >> }

\* stdout of "list vms"
ListTexts ==
    { << QUOTE, "web-01", QUOTE, SPACE, "{u1}", NL, QUOTE, "db-01", QUOTE, SPACE, "{u2}", NL >>,
      << QUOTE, "db-01", QUOTE, SPACE, "{u2}", NL, NL, "note", NL,
         QUOTE, "web-01", QUOTE, SPACE, "{u1}" >>,
      << "x", QUOTE, "web-01", NL >>,
      << >> }

\* the answer to a subprocess.run whose output is not read
PlainAnswers == {[out |-> o, stdout |-> <<>>] : o \in RunOutcomes}

\* the answer to a subprocess.run(check=True) whose output is parsed
Answers(texts) ==
    {[out |-> o, stdout |-> <<>>] : o \in RunOutcomes \ {"ok"}}
        \cup {[out |-> "ok", stdout |-> t] : t \in texts}

\* subprocess.Popen: the process was spawned, FileNotFoundError, another OSError
PopenOutcomes == {"ok", "notfound", "oserror"}

Passwords == {PyNone, PyStr(<<>>), PyStr(<<"secret">>)}

---------------------------------------------------------------------------
(* The operations of VMManager *)

Bin == IF vboxmanage_path.k = "str" /\ Len(vboxmanage_path.v) = 1
       THEN vboxmanage_path.v[1] ELSE "-"

ListTimeout == 30
StartTimeout == 60
StopTimeout == 30
IpTimeout == 30
StatusTimeout == 30
InfoTimeout == 30
AttachTimeout == 30
SshTimeout == 30
BroadcastTimeout == 30

\* a faulty variant: the names come out in the reverse order of the lines
RECURSIVE list_names_reversed(_)
list_names_reversed(lines) ==
    IF lines = <<>> THEN <<>>
    ELSE LET line == Head(lines)
         IN  IF Len(Strip(line)) > 0 /\ Contains(line, <<QUOTE>>)
             THEN list_names_reversed(Tail(lines)) \o <<Split(line, <<QUOTE>>)[2]>>
             ELSE list_names_reversed(Tail(lines))

\* the loop of list_vms over the lines
RECURSIVE list_names(_)
list_names(lines) ==
    IF lines = <<>> THEN <<>>
    ELSE LET line == Head(lines)
         IN  IF Len(Strip(line)) > 0 /\ Contains(line, <<QUOTE>>)
             THEN <<Split(line, <<QUOTE>>)[2]>> \o list_names(Tail(lines))
             ELSE list_names(Tail(lines))

\* a faulty variant: the timeout of the list command is not caught
list_vms_timeout_escapes(a) ==
    LET cmd == Run(Bin, "list", "-", <<"vms">>, ListTimeout, a.out)
    IN  Method("list_vms", "-", <<>>,
            IF ~Truthy(vboxmanage_path) THEN R(PyList(<<>>), <<>>)
            ELSE IF a.out = "ok"
                 THEN R(PyList(list_names(Split(Strip(a.stdout), <<NL>>))), <<cmd>>)
                 ELSE IF a.out = "timeout" THEN R(PyRaised("TimeoutExpired"), <<cmd>>)
                 ELSE R(PyList(<<>>), <<cmd>>))

list_vms(a) ==
    LET cmd == Run(Bin, "list", "-", <<"vms">>, ListTimeout, a.out)
    IN  Method("list_vms", "-", <<>>,
            IF ~Truthy(vboxmanage_path) THEN R(PyList(<<>>), <<>>)
            ELSE IF a.out = "ok"
                 THEN R(PyList(list_names(Split(Strip(a.stdout), <<NL>>))), <<cmd>>)
                 ELSE R(PyList(<<>>), <<cmd>>))

\* a faulty variant: a start that fails is tried a second time
start_vm_retries(vm_name, headless, a) ==
    LET vm_type == IF headless THEN "headless" ELSE "gui"
        cmd == Run(Bin, "startvm", vm_name, <<"--type", vm_type>>, StartTimeout, a.out)
    IN  Method("start_vm", vm_name, <<IF headless THEN "headless=True" ELSE "headless=False">>,
            IF ~Truthy(vboxmanage_path) THEN R(PyFalse, <<>>)
            ELSE IF a.out = "ok" THEN R(PyTrue, <<cmd>>)
            ELSE R(PyFalse, <<cmd, cmd>>))

start_vm(vm_name, headless, a) ==
    LET vm_type == IF headless THEN "headless" ELSE "gui"
        cmd == Run(Bin, "startvm", vm_name, <<"--type", vm_type>>, StartTimeout, a.out)
    IN  Method("start_vm", vm_name, <<IF headless THEN "headless=True" ELSE "headless=False">>,
            IF ~Truthy(vboxmanage_path) THEN R(PyFalse, <<>>)
            ELSE R(PyBool(a.out = "ok"), <<cmd>>))

broadcast_message_to_vm(vm_name, user, message, a) ==
    LET cmd == Run(Bin, "guestcontrol", vm_name, <<"--username", user, "wall", message>>,
                   BroadcastTimeout, a.out)
    IN  Method("broadcast_message_to_vm", vm_name, <<user, message>>,
            IF ~Truthy(vboxmanage_path) THEN R(PyFalse, <<>>)
            ELSE R(PyBool(a.out = "ok"), <<cmd>>))

warn_user == "nhu"
warn_message == "System will be shutdown"

\* a faulty variant: a warning that fails blocks the stop
stop_vm_warning_blocks(vm_name, graceful, aWarn, a) ==
    LET warn == broadcast_message_to_vm(vm_name, warn_user, warn_message, aWarn)
        how == IF graceful THEN "acpipowerbutton" ELSE "poweroff"
        cmd == Run(Bin, "controlvm", vm_name, <<how>>, StopTimeout, a.out)
    IN  Method("stop_vm", vm_name, <<IF graceful THEN "graceful=True" ELSE "graceful=False">>,
            IF ~Truthy(vboxmanage_path) THEN R(PyFalse, <<>>)
            ELSE IF ~Truthy(warn.ret) THEN R(PyFalse, warn.ev)
            ELSE R(PyBool(a.out = "ok"), warn.ev \o <<cmd>>))

\* a faulty variant: no check of the located binary
stop_vm_unguarded(vm_name, graceful, aWarn, a) ==
    LET warn == broadcast_message_to_vm(vm_name, warn_user, warn_message, aWarn)
        how == IF graceful THEN "acpipowerbutton" ELSE "poweroff"
        cmd == Run(Bin, "controlvm", vm_name, <<how>>, StopTimeout, a.out)
    IN  Method("stop_vm", vm_name, <<IF graceful THEN "graceful=True" ELSE "graceful=False">>,
            R(PyBool(a.out = "ok"), warn.ev \o <<cmd>>))

\* a faulty variant: a graceful stop that fails is followed by a power-off
stop_vm_escalates(vm_name, graceful, aWarn, a) ==
    LET warn == broadcast_message_to_vm(vm_name, warn_user, warn_message, aWarn)
        how == IF graceful THEN "acpipowerbutton" ELSE "poweroff"
        cmd == Run(Bin, "controlvm", vm_name, <<how>>, StopTimeout, a.out)
        hard == Run(Bin, "controlvm", vm_name, <<"poweroff">>, StopTimeout, a.out)
    IN  Method("stop_vm", vm_name, <<IF graceful THEN "graceful=True" ELSE "graceful=False">>,
            IF ~Truthy(vboxmanage_path) THEN R(PyFalse, <<>>)
            ELSE IF graceful /\ a.out # "ok" THEN R(PyFalse, warn.ev \o <<cmd, hard>>)
            ELSE R(PyBool(a.out = "ok"), warn.ev \o <<cmd>>))

stop_vm(vm_name, graceful, aWarn, a) ==
    LET warn == broadcast_message_to_vm(vm_name, warn_user, warn_message, aWarn)
        how == IF graceful THEN "acpipowerbutton" ELSE "poweroff"
        cmd == Run(Bin, "controlvm", vm_name, <<how>>, StopTimeout, a.out)
    IN  Method("stop_vm", vm_name, <<IF graceful THEN "graceful=True" ELSE "graceful=False">>,
            IF ~Truthy(vboxmanage_path) THEN R(PyFalse, <<>>)
            ELSE R(PyBool(a.out = "ok"), warn.ev \o <<cmd>>))

get_vm_ip(vm_name, a) ==
    LET cmd == Run(Bin, "guestproperty", vm_name, <<"get", "/VirtualBox/GuestInfo/Net/0/V4/IP">>,
                   IpTimeout, a.out)
        output == Strip(a.stdout)
    IN  Method("get_vm_ip", vm_name, <<>>,
            IF ~Truthy(vboxmanage_path) THEN R(PyNone, <<>>)
            ELSE IF a.out # "ok" THEN R(PyNone, <<cmd>>)
            ELSE IF Contains(output, NOVALUE) THEN R(PyNone, <<cmd>>)
            ELSE IF Contains(output, VALUE)
                 THEN R(PyStr(Strip(Split(output, VALUE)[2])), <<cmd>>)
                 ELSE R(PyNone, <<cmd>>))

\* a faulty variant: a later line with the prefix replaces an earlier one
RECURSIVE first_state_overwritten(_)
first_state_overwritten(lines) ==
    IF lines = <<>> THEN PyNone
    ELSE LET later == first_state_overwritten(Tail(lines))
         IN  IF later.k = "None" /\ StartsWith(Head(lines), <<"VMState", EQUALS>>)
             THEN PyStr(StripChar(Split(Head(lines), <<EQUALS>>)[2], QUOTE))
             ELSE later

\* the loop of get_vm_status over the lines
RECURSIVE first_state(_)
first_state(lines) ==
    IF lines = <<>> THEN PyNone
    ELSE IF StartsWith(Head(lines), <<"VMState", EQUALS>>)
         THEN PyStr(StripChar(Split(Head(lines), <<EQUALS>>)[2], QUOTE))
         ELSE first_state(Tail(lines))

get_vm_status(vm_name, a) ==
    LET cmd == Run(Bin, "showvminfo", vm_name, <<"--machinereadable">>, StatusTimeout, a.out)
    IN  Method("get_vm_status", vm_name, <<>>,
            IF ~Truthy(vboxmanage_path) THEN R(PyNone, <<>>)
            ELSE IF a.out # "ok" THEN R(PyNone, <<cmd>>)
            ELSE R(first_state(Split(Strip(a.stdout), <<NL>>)), <<cmd>>))

\* a faulty variant: the remote shell is tried even without an address
send_message_to_vm_without_ip(vm_name, user, password, message, aIp, a) ==
    LET ip == get_vm_ip(vm_name, aIp)
        cmd == Run("ssh", "ssh", vm_name,
                   <<user, "@">> \o ip.ret.v \o <<"wall", message, "input", Repr(password)>>,
                   SshTimeout, a.out)
    IN  Method("send_message_to_vm", vm_name, <<user, Repr(password), message>>,
            IF ~Truthy(vboxmanage_path) THEN R(PyFalse, <<>>)
            ELSE R(PyBool(Truthy(ip.ret) /\ a.out = "ok"), ip.ev \o <<cmd>>))

send_message_to_vm(vm_name, user, password, message, aIp, a) ==
    LET ip == get_vm_ip(vm_name, aIp)
        cmd == Run("ssh", "ssh", vm_name,
                   <<user, "@">> \o ip.ret.v \o <<"wall", message, "input", Repr(password)>>,
                   SshTimeout, a.out)
    IN  Method("send_message_to_vm", vm_name, <<user, Repr(password), message>>,
            IF ~Truthy(vboxmanage_path) THEN R(PyFalse, <<>>)
            ELSE IF ~Truthy(ip.ret) THEN R(PyFalse, ip.ev)
            ELSE R(PyBool(a.out = "ok"), ip.ev \o <<cmd>>))

open_terminal(vm_name, user, aIp, wt) ==
    LET ip == get_vm_ip(vm_name, aIp)
        cmd == Run("wt", "new-tab", vm_name, <<"ssh", user, "@">> \o ip.ret.v, NoTimeout, wt)
    IN  Method("open_terminal", vm_name, <<user>>,
            IF ~Truthy(vboxmanage_path) THEN R(PyFalse, <<>>)
            ELSE IF ~Truthy(ip.ret) THEN R(PyFalse, ip.ev)
            ELSE R(PyBool(wt = "ok"), ip.ev \o <<cmd>>))

running == PyStr(<<"running">>)

\* a faulty variant: a terminal that could not be opened is reported
svo_reports_terminal(vm_name, user, aStatus1, aStart, aStatus2, aIp, wt) ==
    LET status == get_vm_status(vm_name, aStatus1)
        started == IF ~PyEq(status.ret, running)
                   THEN start_vm(vm_name, TRUE, aStart).ev
                   ELSE <<>>
        again == get_vm_status(vm_name, aStatus2)
        term == open_terminal(vm_name, user, aIp, wt)
    IN  Method("start_vm_and_open_a_terminal", vm_name, <<user>>,
            IF ~PyEq(again.ret, running)
            THEN R(PyInt1, status.ev \o started \o again.ev)
            ELSE R(IF Truthy(term.ret) THEN PyInt0 ELSE PyInt1,
                   status.ev \o started \o again.ev \o term.ev))

\* a faulty variant: the VM is started whatever the first status is
svo_always_starts(vm_name, user, aStatus1, aStart, aStatus2, aIp, wt) ==
    LET status == get_vm_status(vm_name, aStatus1)
        started == start_vm(vm_name, TRUE, aStart).ev
        again == get_vm_status(vm_name, aStatus2)
        term == open_terminal(vm_name, user, aIp, wt)
    IN  Method("start_vm_and_open_a_terminal", vm_name, <<user>>,
            IF ~PyEq(again.ret, running)
            THEN R(PyInt1, status.ev \o started \o again.ev)
            ELSE R(PyInt0, status.ev \o started \o again.ev \o term.ev))

\* a faulty variant: the terminal is opened before the second status is looked at
svo_connects_anyway(vm_name, user, aStatus1, aStart, aStatus2, aIp, wt) ==
    LET status == get_vm_status(vm_name, aStatus1)
        started == IF ~PyEq(status.ret, running)
                   THEN start_vm(vm_name, TRUE, aStart).ev
                   ELSE <<>>
        again == get_vm_status(vm_name, aStatus2)
        term == open_terminal(vm_name, user, aIp, wt)
    IN  Method("start_vm_and_open_a_terminal", vm_name, <<user>>,
            R(IF ~PyEq(again.ret, running) THEN PyInt1 ELSE PyInt0,
              status.ev \o started \o again.ev \o term.ev))

\* a faulty variant: a start that returned True is taken for a running VM,
\* without a second status query
svo_trusts_start(vm_name, user, aStatus1, aStart, aStatus2, aIp, wt) ==
    LET status == get_vm_status(vm_name, aStatus1)
        start == start_vm(vm_name, TRUE, aStart)
        again == get_vm_status(vm_name, aStatus2)
        term == open_terminal(vm_name, user, aIp, wt)
    IN  Method("start_vm_and_open_a_terminal", vm_name, <<user>>,
            IF PyEq(status.ret, running)
            THEN R(PyInt0, status.ev \o term.ev)
            ELSE IF Truthy(start.ret)
            THEN R(PyInt0, status.ev \o start.ev \o term.ev)
            ELSE IF ~PyEq(again.ret, running)
            THEN R(PyInt1, status.ev \o start.ev \o again.ev)
            ELSE R(PyInt0, status.ev \o start.ev \o again.ev \o term.ev))

start_vm_and_open_a_terminal(vm_name, user, aStatus1, aStart, aStatus2, aIp, wt) ==
    LET status == get_vm_status(vm_name, aStatus1)
        started == IF ~PyEq(status.ret, running)
                   THEN start_vm(vm_name, TRUE, aStart).ev
                   ELSE <<>>
        again == get_vm_status(vm_name, aStatus2)
        term == open_terminal(vm_name, user, aIp, wt)
    IN  Method("start_vm_and_open_a_terminal", vm_name, <<user>>,
            IF ~PyEq(again.ret, running)
            THEN R(PyInt1, status.ev \o started \o again.ev)
            ELSE R(PyInt0, status.ev \o started \o again.ev \o term.ev))

\* tokens whose lower case contains "storagecontrollername", "ide", "sata"
ControllerKeyTokens == {"storagecontrollername0", "StorageControllerName1"}
IdeTokens == {"IDE", "IDE Controller"}
SataTokens == {"SATA"}

LineHas(line, tokens) == \E i \in 1..Len(line) : line[i] \in tokens

\* line.split('=')[1] on a line without '=' raises IndexError
PyIndexError == PyRaised("IndexError")

\* the loop of install_guest_additions over the lines of the VM info
RECURSIVE first_controller(_)
first_controller(lines) ==
    IF lines = <<>> THEN PyNone
    ELSE LET line == Head(lines)
         IN  IF LineHas(line, ControllerKeyTokens)
                  /\ (LineHas(line, IdeTokens) \/ LineHas(line, SataTokens))
             THEN IF Len(Split(line, <<EQUALS>>)) < 2 THEN PyIndexError
                  ELSE PyStr(StripChar(Split(line, <<EQUALS>>)[2], QUOTE))
             ELSE first_controller(Tail(lines))

default_controller == <<"IDE Controller">>
iso_name == "VBoxGuestAdditions.iso"
ports_to_try == <<"1", "0">>

attach(vm_name, controller, port, medium, out) ==
    Run(Bin, "storageattach", vm_name,
        <<"--storagectl">> \o controller \o <<"--port", port, "--medium", medium>>,
        AttachTimeout, out)

\* the loop over ports_to_try, from entry i on: ret is True when a port took
\* the image, False when none did, and an exception the loop does not catch
RECURSIVE try_ports(_, _, _, _)
try_ports(i, vm_name, controller, aAttach) ==
    IF i > Len(ports_to_try) THEN R(PyFalse, <<>>)
    ELSE LET port == ports_to_try[i]
             out == aAttach[port].out
             cmd == attach(vm_name, controller, port, iso_name, out)
             rest == try_ports(i + 1, vm_name, controller, aAttach)
         IN  CASE out = "ok" -> R(PyTrue, <<cmd>>)
               [] out = "nonzero" -> R(rest.ret, <<cmd>> \o rest.ev)
               [] OTHER -> R(PyRaised(out), <<cmd>>)

\* a faulty variant: the image is attached again whatever became of the drive
add_drive_and_mount_anyway(vm_name, controller, aAdd, aRetry) ==
    LET add == attach(vm_name, controller, "1", "emptydrive", aAdd.out)
        retry == attach(vm_name, controller, "1", iso_name, aRetry.out)
    IN  R(PyBool(aRetry.out = "ok"), <<add, retry>>)

\* a faulty variant: an attach of the image that failed after the drive was
\* added is tried once more
add_drive_and_mount_again(vm_name, controller, aAdd, aRetry) ==
    LET add == attach(vm_name, controller, "1", "emptydrive", aAdd.out)
        retry == attach(vm_name, controller, "1", iso_name, aRetry.out)
    IN  IF aAdd.out # "ok" THEN R(PyFalse, <<add>>)
        ELSE IF aRetry.out = "ok" THEN R(PyTrue, <<add, retry>>)
        ELSE R(PyFalse, <<add, retry, retry>>)

\* the fallback: an empty drive on port 1, then the image again
add_drive_and_mount(vm_name, controller, aAdd, aRetry) ==
    LET add == attach(vm_name, controller, "1", "emptydrive", aAdd.out)
        retry == attach(vm_name, controller, "1", iso_name, aRetry.out)
    IN  IF aAdd.out # "ok" THEN R(PyFalse, <<add>>)
        ELSE R(PyBool(aRetry.out = "ok"), <<add, retry>>)

\* a faulty variant: the VM info is queried before the image is looked for
install_guest_additions_info_first(vm_name, iso_exists, aInfo, aAttach, aAdd, aRetry) ==
    LET chk == Exists(iso_name, iso_exists)
        info == Run(Bin, "showvminfo", vm_name, <<"--machinereadable">>, InfoTimeout, aInfo.out)
        found == first_controller(Split(aInfo.stdout, <<NL>>))
        controller == IF Truthy(found) THEN found.v ELSE default_controller
        direct == try_ports(1, vm_name, controller, aAttach)
        fallback == add_drive_and_mount(vm_name, controller, aAdd, aRetry)
    IN  Method("install_guest_additions", vm_name, <<>>,
            IF ~Truthy(vboxmanage_path) THEN R(PyFalse, <<>>)
            ELSE IF aInfo.out # "ok" THEN R(PyFalse, <<info>>)
            ELSE IF ~iso_exists THEN R(PyFalse, <<info, chk>>)
            ELSE IF found.k = "raise" THEN R(PyFalse, <<info, chk>>)
            ELSE IF direct.ret.k = "raise" THEN R(PyFalse, <<info, chk>> \o direct.ev)
            ELSE IF Truthy(direct.ret) THEN R(PyTrue, <<info, chk>> \o direct.ev)
            ELSE R(fallback.ret, <<info, chk>> \o direct.ev \o fallback.ev))

install_guest_additions(vm_name, iso_exists, aInfo, aAttach, aAdd, aRetry) ==
    LET chk == Exists(iso_name, iso_exists)
        info == Run(Bin, "showvminfo", vm_name, <<"--machinereadable">>, InfoTimeout, aInfo.out)
        found == first_controller(Split(aInfo.stdout, <<NL>>))
        controller == IF Truthy(found) THEN found.v ELSE default_controller
        direct == try_ports(1, vm_name, controller, aAttach)
        fallback == add_drive_and_mount(vm_name, controller, aAdd, aRetry)
    IN  Method("install_guest_additions", vm_name, <<>>,
            IF ~Truthy(vboxmanage_path) THEN R(PyFalse, <<>>)
            ELSE IF ~iso_exists THEN R(PyFalse, <<chk>>)
            ELSE IF aInfo.out # "ok" THEN R(PyFalse, <<chk, info>>)
            ELSE IF found.k = "raise" THEN R(PyFalse, <<chk, info>>)
            ELSE IF direct.ret.k = "raise" THEN R(PyFalse, <<chk, info>> \o direct.ev)
            ELSE IF Truthy(direct.ret) THEN R(PyTrue, <<chk, info>> \o direct.ev)
            ELSE R(fallback.ret, <<chk, info>> \o direct.ev \o fallback.ev))

AttachAnswers == [{"1", "0"} -> PlainAnswers]

---------------------------------------------------------------------------
(* main(), from the check of the located binary to the end: each branch
   gives the outcome of the operation and the exit status *)

Exit(r, code) == [ret |-> r.ret, ev |-> r.ev, exit |-> code]

main_start(vm_name, gui, a) ==
    LET r == start_vm(vm_name, ~gui, a)
    IN  Exit(r, IF ~Truthy(r.ret) THEN 1 ELSE 0)

main_stop(vm_name, force, aWarn, a) ==
    LET r == stop_vm(vm_name, ~force, aWarn, a)
    IN  Exit(r, IF ~Truthy(r.ret) THEN 1 ELSE 0)

main_ip(vm_name, a) ==
    LET r == get_vm_ip(vm_name, a)
    IN  Exit(r, IF r.ret.k = "None" THEN 1 ELSE 0)

main_list(a) == Exit(list_vms(a), 0)

main_guest(vm_name, iso_exists, aInfo, aAttach, aAdd, aRetry) ==
    LET r == install_guest_additions(vm_name, iso_exists, aInfo, aAttach, aAdd, aRetry)
    IN  Exit(r, IF ~Truthy(r.ret) THEN 1 ELSE 0)

main_terminal(vm_name, user, aIp, wt) ==
    LET r == open_terminal(vm_name, user, aIp, wt)
    IN  Exit(r, IF ~Truthy(r.ret) THEN 1 ELSE 0)

\* a faulty variant: the fallback does not look at the password
main_message_any_password(vm_name, user, password, message, aBroadcast, aIp, aSsh) ==
    LET first == broadcast_message_to_vm(vm_name, user, message, aBroadcast)
        second == send_message_to_vm(vm_name, user, password, message, aIp, aSsh)
    IN  IF ~Truthy(first.ret)
        THEN Exit(R(second.ret, first.ev \o second.ev), IF Truthy(second.ret) THEN 0 ELSE 1)
        ELSE Exit(first, IF Truthy(first.ret) THEN 0 ELSE 1)

\* a faulty variant: the fallback counts as success once it was tried
main_message_fallback_counts(vm_name, user, password, message, aBroadcast, aIp, aSsh) ==
    LET first == broadcast_message_to_vm(vm_name, user, message, aBroadcast)
        second == send_message_to_vm(vm_name, user, password, message, aIp, aSsh)
    IN  IF ~Truthy(first.ret) /\ Truthy(password)
        THEN Exit(R(second.ret, first.ev \o second.ev), 0)
        ELSE Exit(first, IF Truthy(first.ret) THEN 0 ELSE 1)

main_message(vm_name, user, password, message, aBroadcast, aIp, aSsh) ==
    LET first == broadcast_message_to_vm(vm_name, user, message, aBroadcast)
        second == send_message_to_vm(vm_name, user, password, message, aIp, aSsh)
    IN  IF ~Truthy(first.ret) /\ Truthy(password)
        THEN Exit(R(second.ret, first.ev \o second.ev), IF Truthy(second.ret) THEN 0 ELSE 1)
        ELSE Exit(first, IF Truthy(first.ret) THEN 0 ELSE 1)

main_svo(vm_name, user, aStatus1, aStart, aStatus2, aIp, wt) ==
    LET r == start_vm_and_open_a_terminal(vm_name, user, aStatus1, aStart, aStatus2, aIp, wt)
    IN  Exit(r, IF ~Truthy(r.ret) THEN 1 ELSE 0)

main_status(vm_name, a) ==
    LET r == get_vm_status(vm_name, a)
    IN  Exit(r, IF r.ret.k = "None" THEN 1 ELSE 0)

Texts == {"hello"}

---------------------------------------------------------------------------
(* Actions *)

NoOp == [fn |-> "-", ret |-> PyNone, ev |-> <<>>]

Init ==
    /\ phase = "new"
    /\ vboxmanage_path = PyNone
    /\ last = NoOp
    /\ exit_code = -1
    /\ threads = <<>>

\* VMManager.__init__
VMManager_init ==
    /\ phase = "new"
    /\ \E a \in LocateAnswers :
        LET r == find_vboxmanage(a.wk, a.pa, a.common)
        IN  /\ vboxmanage_path' = r.ret
            /\ last' = [fn |-> "__init__", ret |-> PyNone, ev |-> r.ev]
    /\ phase' = "done"
    /\ UNCHANGED <<exit_code, threads>>

\* the caller has taken the result of the last operation; the manager, whose
\* only attribute besides the logger is vboxmanage_path, is idle again
Idle ==
    /\ phase = "done"
    /\ phase' = "ready"
    /\ last' = NoOp
    /\ UNCHANGED <<vboxmanage_path, exit_code, threads>>

\* a faulty variant: a method that failed forgets the located binary
Returned_forgets_path(fn, r) ==
    /\ last' = [fn |-> fn, ret |-> r.ret, ev |-> r.ev]
    /\ phase' = "done"
    /\ vboxmanage_path' = IF Truthy(r.ret) THEN vboxmanage_path ELSE PyNone
    /\ UNCHANGED <<exit_code, threads>>

\* a method called on the constructed manager has returned r
Returned(fn, r) ==
    /\ last' = [fn |-> fn, ret |-> r.ret, ev |-> r.ev]
    /\ phase' = "done"
    /\ UNCHANGED <<vboxmanage_path, exit_code, threads>>

call_list_vms ==
    /\ phase = "ready"
    /\ \E a \in Answers(ListTexts) : Returned("list_vms", list_vms(a))

call_start_vm ==
    /\ phase = "ready"
    /\ \E vm \in VMNames, headless \in BOOLEAN, a \in PlainAnswers :
           Returned("start_vm", start_vm(vm, headless, a))

call_stop_vm ==
    /\ phase = "ready"
    /\ \E vm \in VMNames, graceful \in BOOLEAN, aWarn \in PlainAnswers, a \in PlainAnswers :
           Returned("stop_vm", stop_vm(vm, graceful, aWarn, a))

call_get_vm_ip ==
    /\ phase = "ready"
    /\ \E vm \in VMNames, a \in Answers(IpTexts) : Returned("get_vm_ip", get_vm_ip(vm, a))

call_get_vm_status ==
    /\ phase = "ready"
    /\ \E vm \in VMNames, a \in Answers(InfoTexts) :
           Returned("get_vm_status", get_vm_status(vm, a))

call_install_guest_additions ==
    /\ phase = "ready"
    /\ \E vm \in VMNames, iso_exists \in BOOLEAN, aInfo \in Answers(InfoTexts),
          aAttach \in AttachAnswers, aAdd \in PlainAnswers, aRetry \in PlainAnswers :
           Returned("install_guest_additions",
                    install_guest_additions(vm, iso_exists, aInfo, aAttach, aAdd, aRetry))

call_send_message_to_vm ==
    /\ phase = "ready"
    /\ \E vm \in VMNames, user \in Users, password \in Passwords, message \in Texts,
          aIp \in Answers(IpTexts), a \in PlainAnswers :
           Returned("send_message_to_vm",
                    send_message_to_vm(vm, user, password, message, aIp, a))

call_broadcast_message_to_vm ==
    /\ phase = "ready"
    /\ \E vm \in VMNames, user \in Users, message \in Texts, a \in PlainAnswers :
           Returned("broadcast_message_to_vm", broadcast_message_to_vm(vm, user, message, a))

call_open_terminal ==
    /\ phase = "ready"
    /\ \E vm \in VMNames, user \in Users, aIp \in Answers(IpTexts), wt \in PopenOutcomes :
           Returned("open_terminal", open_terminal(vm, user, aIp, wt))

call_start_vm_and_open_a_terminal ==
    /\ phase = "ready"
    /\ \E vm \in VMNames, user \in Users, aStatus1 \in Answers(InfoTexts), aStart \in PlainAnswers,
          aStatus2 \in Answers(InfoTexts), aIp \in Answers(IpTexts), wt \in PopenOutcomes :
           Returned("start_vm_and_open_a_terminal",
                    start_vm_and_open_a_terminal(vm, user, aStatus1, aStart, aStatus2, aIp, wt))

MainActions ==
    {"start", "stop", "ip", "list", "guest", "terminal", "message", "svo", "status"}

\* main() has ended with the outcome x of its branch; args are the
\* command-line arguments the branch read, the action first
Exits(vm, args, x) ==
    /\ last' = [fn |-> "main", ret |-> x.ret, ev |-> <<Call("main", vm, args)>> \o x.ev]
    /\ exit_code' = x.exit
    /\ phase' = "exited"
    /\ UNCHANGED <<vboxmanage_path, threads>>

Flag(name, b) == IF b THEN name ELSE "-"

\* main(), with the manager constructed and the arguments resolved
main ==
    /\ phase = "ready"
    /\ \E vm \in VMNames, user \in Users :
        IF ~Truthy(vboxmanage_path)
        THEN \E action \in MainActions : Exits(vm, <<action>>, Exit(R(PyNone, <<>>), 1))
        ELSE \/ \E gui \in BOOLEAN, a \in PlainAnswers :
                    Exits(vm, <<"start", Flag("--gui", gui)>>, main_start(vm, gui, a))
             \/ \E force \in BOOLEAN, aWarn \in PlainAnswers, a \in PlainAnswers :
                    Exits(vm, <<"stop", Flag("--force", force)>>, main_stop(vm, force, aWarn, a))
             \/ \E a \in Answers(IpTexts) : Exits(vm, <<"ip">>, main_ip(vm, a))
             \/ \E a \in Answers(ListTexts) : Exits(vm, <<"list">>, main_list(a))
             \/ \E iso_exists \in BOOLEAN, aInfo \in Answers(InfoTexts),
                   aAttach \in AttachAnswers, aAdd \in PlainAnswers, aRetry \in PlainAnswers :
                    Exits(vm, <<"guest">>,
                          main_guest(vm, iso_exists, aInfo, aAttach, aAdd, aRetry))
             \/ \E aIp \in Answers(IpTexts), wt \in PopenOutcomes :
                    Exits(vm, <<"terminal", user>>, main_terminal(vm, user, aIp, wt))
             \/ \E password \in Passwords, message \in Texts, aBroadcast \in PlainAnswers,
                   aIp \in Answers(IpTexts), aSsh \in PlainAnswers :
                    Exits(vm, <<"message", user, Repr(password), message>>,
                          main_message(vm, user, password, message, aBroadcast, aIp, aSsh))
             \/ \E aStatus1 \in Answers(InfoTexts), aStart \in PlainAnswers,
                   aStatus2 \in Answers(InfoTexts), aIp \in Answers(IpTexts),
                   wt \in PopenOutcomes :
                    Exits(vm, <<"svo", user>>,
                          main_svo(vm, user, aStatus1, aStart, aStatus2, aIp, wt))
             \/ \E a \in Answers(InfoTexts) : Exits(vm, <<"status">>, main_status(vm, a))

Next ==
    \/ VMManager_init
    \/ Idle
    \/ call_list_vms
    \/ call_start_vm
    \/ call_stop_vm
    \/ call_get_vm_ip
    \/ call_get_vm_status
    \/ call_install_guest_additions
    \/ call_send_message_to_vm
    \/ call_broadcast_message_to_vm
    \/ call_open_terminal
    \/ call_start_vm_and_open_a_terminal
    \/ main

Spec == Init /\ [][Next]_vars

---------------------------------------------------------------------------
(* Two callers on one constructed manager.  Each caller runs one method of
   VMManager on its own VM; a step of a caller goes from one external call
   (or method call, or return) to the next, and the steps of the callers
   interleave.  A method's frame holds its arguments and local variables;
   the manager holds vboxmanage_path only. *)

Threads == {1, 2}

\* the answers a caller can get, by the call that gets them
Roles ==
    {"a", "aWarn", "aIp", "aStatus1", "aStart", "aStatus2", "wt", "iso_exists",
     "aInfo", "aAttach1", "aAttach0", "aAdd", "aRetry"}

\* the answer to a call that was not made
Unasked == [out |-> "-", stdout |-> <<>>]

ParOutcomes == {"ok", "timeout"}

ParAnswers(texts) ==
    {[out |-> o, stdout |-> <<>>] : o \in ParOutcomes \ {"ok"}}
        \cup {[out |-> "ok", stdout |-> t] : t \in texts}

ParPlainAnswers == {[out |-> o, stdout |-> <<>>] : o \in ParOutcomes}

\* the attach commands, whose non-zero exit and timeout end differently
ParAttachAnswers == {[out |-> o, stdout |-> <<>>] : o \in {"ok", "nonzero", "timeout"}}

ParInfoTexts ==
    { << "name", EQUALS, QUOTE, "vm", QUOTE, NL,
         "VMState", EQUALS, QUOTE, "running", QUOTE, NL,
         "storagecontrollername0", EQUALS, QUOTE, "IDE", QUOTE, NL >>,
      << "name", EQUALS, QUOTE, "vm", QUOTE, NL,
         "storagecontrollername0", EQUALS, QUOTE, "NVMe", QUOTE, NL,
         "StorageControllerName1", EQUALS, QUOTE, "SATA", QUOTE, NL,
         "VMState", EQUALS, QUOTE, "poweroff", QUOTE, NL >> }

ParIpTexts == { << "Value:", SPACE, "10.0.2.15", NL >>, << "No value set!", NL >> }

ParListTexts ==
    { << QUOTE, "web-01", QUOTE, SPACE, "{u1}", NL, QUOTE, "db-01", QUOTE, SPACE, "{u2}", NL >> }

ParPasswords == {PyStr(<<"secret">>)}

\* a frame: the method, where it stands, its arguments (flag is headless or
\* graceful), the role of the answer to its command, and the local
\* controller_name of install_guest_additions
Frame(fn, flag, user, password, message, as) ==
    [fn |-> fn, pc |-> "entry", flag |-> flag, user |-> user, password |-> password,
     message |-> message, as |-> as, controller_name |-> <<>>]

\* the calls a caller can make
ParOps ==
    {Frame(fn, FALSE, "-", PyNone, "-", "a") :
        fn \in {"list_vms", "get_vm_ip", "get_vm_status", "install_guest_additions"}}
    \cup {Frame(fn, flag, "-", PyNone, "-", "a") :
            fn \in {"start_vm", "stop_vm"}, flag \in BOOLEAN}
    \cup {Frame(fn, FALSE, user, PyNone, "-", "a") :
            fn \in {"open_terminal", "start_vm_and_open_a_terminal"}, user \in Users}
    \cup {Frame("broadcast_message_to_vm", FALSE, user, PyNone, message, "a") :
            user \in Users, message \in Texts}
    \cup {Frame("send_message_to_vm", FALSE, user, password, message, "a") :
            user \in Users, password \in ParPasswords, message \in Texts}

\* how the arguments of a frame show in its call event
CallArgs(f) ==
    CASE f.fn = "start_vm" -> <<IF f.flag THEN "headless=True" ELSE "headless=False">>
      [] f.fn = "stop_vm" -> <<IF f.flag THEN "graceful=True" ELSE "graceful=False">>
      [] f.fn = "send_message_to_vm" -> <<f.user, Repr(f.password), f.message>>
      [] f.fn = "broadcast_message_to_vm" -> <<f.user, f.message>>
      [] f.fn \in {"open_terminal", "start_vm_and_open_a_terminal"} -> <<f.user>>
      [] OTHER -> <<>>

CallVm(f, vm) == IF f.fn = "list_vms" THEN "-" ELSE vm

NoFrame == Frame("-", FALSE, "-", PyNone, "-", "a")

\* a caller before its call
NewThread(vm) ==
    [vm |-> vm, state |-> "idle", op |-> NoFrame, stack |-> <<>>, ev |-> <<>>,
     ans |-> [r \in Roles |-> Unasked], retval |-> PyNone]

Top(th) == th.stack[Len(th.stack)]

\* the caller th calls the method of frame f
Push(th, f) ==
    [th EXCEPT !.stack = Append(@, f),
               !.ev = Append(@, Call(f.fn, CallVm(f, th.vm), CallArgs(f)))]

\* the method on top goes on at pc
Goto(th, pc) == [th EXCEPT !.stack[Len(th.stack)].pc = pc]

\* the method on top returns value to its caller
Pop(th, value) ==
    [th EXCEPT !.stack = SubSeq(@, 1, Len(@) - 1),
               !.ev = Append(@, Return(Top(th).fn, CallVm(Top(th), th.vm), value)),
               !.retval = value,
               !.state = IF Len(th.stack) = 1 THEN "finished" ELSE "busy"]

\* the method on top launches cmd and gets the answer a, in the role given
Launch(th, role, a, cmd) == [th EXCEPT !.ev = Append(@, cmd), !.ans[role] = a]

\* the caller t is in the method fn
Busy(t, fn) ==
    /\ phase = "concurrent"
    /\ threads[t].state = "busy"
    /\ Top(threads[t]).fn = fn

\* the step of caller t ends with t as th; last.fn notes that a caller has
\* made a step inside its call while the call of another one was under way
Become(t, th) ==
    /\ threads' = [threads EXCEPT ![t] = th]
    /\ last' = IF threads[t].state = "busy" /\ \E u \in Threads \ {t} : threads[u].state = "busy"
               THEN [last EXCEPT !.fn = "overlapped"]
               ELSE last
    /\ UNCHANGED <<phase, vboxmanage_path, exit_code>>

\* a faulty variant: the value a method got from the method it called is
\* kept in an attribute of the manager, which the first caller writes
returned_in_attribute(t) == threads[1].retval

\* the value the method on top of caller t got from the method it called:
\* its local variable status, ip or success
returned(t) == threads[t].retval

\* the values the constructor can leave in vboxmanage_path
LocatedPaths == {PyNone, PyStr(<<path_name>>)}

InitPar ==
    /\ phase = "concurrent"
    /\ vboxmanage_path \in LocatedPaths
    /\ last = NoOp
    /\ exit_code = -1
    /\ threads = <<NewThread("web-01"), NewThread("db-01")>>

\* a caller calls a method of the manager
par_call ==
    /\ phase = "concurrent"
    /\ \E t \in Threads, f \in ParOps :
        /\ threads[t].state = "idle"
        /\ Become(t, [Push(threads[t], f) EXCEPT !.state = "busy", !.op = f])

par_list_vms ==
    \E t \in Threads :
        /\ Busy(t, "list_vms")
        /\ LET th == threads[t]
           IN  IF ~Truthy(vboxmanage_path) THEN Become(t, Pop(th, PyList(<<>>)))
               ELSE \E a \in ParAnswers(ParListTexts) :
                    LET cmd == Run(Bin, "list", "-", <<"vms">>, ListTimeout, a.out)
                        vm_names == list_names(Split(Strip(a.stdout), <<NL>>))
                    IN  Become(t, Pop(Launch(th, Top(th).as, a, cmd),
                                      IF a.out = "ok" THEN PyList(vm_names) ELSE PyList(<<>>)))

par_start_vm ==
    \E t \in Threads :
        /\ Busy(t, "start_vm")
        /\ LET th == threads[t]
               vm_type == IF Top(th).flag THEN "headless" ELSE "gui"
           IN  IF ~Truthy(vboxmanage_path) THEN Become(t, Pop(th, PyFalse))
               ELSE \E a \in ParPlainAnswers :
                    LET cmd == Run(Bin, "startvm", th.vm, <<"--type", vm_type>>,
                                   StartTimeout, a.out)
                    IN  Become(t, Pop(Launch(th, Top(th).as, a, cmd), PyBool(a.out = "ok")))

par_get_vm_ip ==
    \E t \in Threads :
        /\ Busy(t, "get_vm_ip")
        /\ LET th == threads[t]
           IN  IF ~Truthy(vboxmanage_path) THEN Become(t, Pop(th, PyNone))
               ELSE \E a \in ParAnswers(ParIpTexts) :
                    LET cmd == Run(Bin, "guestproperty", th.vm,
                                   <<"get", "/VirtualBox/GuestInfo/Net/0/V4/IP">>,
                                   IpTimeout, a.out)
                        output == Strip(a.stdout)
                        ip_address ==
                            IF a.out # "ok" THEN PyNone
                            ELSE IF Contains(output, NOVALUE) THEN PyNone
                            ELSE IF Contains(output, VALUE)
                                 THEN PyStr(Strip(Split(output, VALUE)[2]))
                                 ELSE PyNone
                    IN  Become(t, Pop(Launch(th, Top(th).as, a, cmd), ip_address))

par_get_vm_status ==
    \E t \in Threads :
        /\ Busy(t, "get_vm_status")
        /\ LET th == threads[t]
           IN  IF ~Truthy(vboxmanage_path) THEN Become(t, Pop(th, PyNone))
               ELSE \E a \in ParAnswers(ParInfoTexts) :
                    LET cmd == Run(Bin, "showvminfo", th.vm, <<"--machinereadable">>,
                                   StatusTimeout, a.out)
                        state == IF a.out # "ok" THEN PyNone
                                 ELSE first_state(Split(Strip(a.stdout), <<NL>>))
                    IN  Become(t, Pop(Launch(th, Top(th).as, a, cmd), state))

par_broadcast_message_to_vm ==
    \E t \in Threads :
        /\ Busy(t, "broadcast_message_to_vm")
        /\ LET th == threads[t]
               f == Top(th)
           IN  IF ~Truthy(vboxmanage_path) THEN Become(t, Pop(th, PyFalse))
               ELSE \E a \in ParPlainAnswers :
                    LET cmd == Run(Bin, "guestcontrol", th.vm,
                                   <<"--username", f.user, "wall", f.message>>,
                                   BroadcastTimeout, a.out)
                    IN  Become(t, Pop(Launch(th, f.as, a, cmd), PyBool(a.out = "ok")))

par_stop_vm ==
    \E t \in Threads :
        /\ Busy(t, "stop_vm")
        /\ LET th == threads[t]
               f == Top(th)
               warning == Frame("broadcast_message_to_vm", FALSE, warn_user, PyNone,
                                warn_message, "aWarn")
               how == IF f.flag THEN "acpipowerbutton" ELSE "poweroff"
           IN  CASE f.pc = "entry" ->
                    IF ~Truthy(vboxmanage_path) THEN Become(t, Pop(th, PyFalse))
                    ELSE Become(t, Push(Goto(th, "warned"), warning))
                 [] f.pc = "warned" ->
                    \E a \in ParPlainAnswers :
                        LET cmd == Run(Bin, "controlvm", th.vm, <<how>>, StopTimeout, a.out)
                        IN  Become(t, Pop(Launch(th, "a", a, cmd), PyBool(a.out = "ok")))

par_send_message_to_vm ==
    \E t \in Threads :
        /\ Busy(t, "send_message_to_vm")
        /\ LET th == threads[t]
               f == Top(th)
               ip == returned(t)
           IN  CASE f.pc = "entry" ->
                    IF ~Truthy(vboxmanage_path) THEN Become(t, Pop(th, PyFalse))
                    ELSE Become(t, Push(Goto(th, "ip"),
                                        Frame("get_vm_ip", FALSE, "-", PyNone, "-", "aIp")))
                 [] f.pc = "ip" ->
                    IF ~Truthy(ip) THEN Become(t, Pop(th, PyFalse))
                    ELSE \E a \in ParPlainAnswers :
                        LET cmd == Run("ssh", "ssh", th.vm,
                                       <<f.user, "@">> \o ip.v
                                           \o <<"wall", f.message, "input", Repr(f.password)>>,
                                       SshTimeout, a.out)
                        IN  Become(t, Pop(Launch(th, "a", a, cmd), PyBool(a.out = "ok")))

par_open_terminal ==
    \E t \in Threads :
        /\ Busy(t, "open_terminal")
        /\ LET th == threads[t]
               f == Top(th)
               ip == returned(t)
           IN  CASE f.pc = "entry" ->
                    IF ~Truthy(vboxmanage_path) THEN Become(t, Pop(th, PyFalse))
                    ELSE Become(t, Push(Goto(th, "ip"),
                                        Frame("get_vm_ip", FALSE, "-", PyNone, "-", "aIp")))
                 [] f.pc = "ip" ->
                    IF ~Truthy(ip) THEN Become(t, Pop(th, PyFalse))
                    ELSE \E wt \in PopenOutcomes :
                        LET cmd == Run("wt", "new-tab", th.vm, <<"ssh", f.user, "@">> \o ip.v,
                                       NoTimeout, wt)
                        IN  Become(t, Pop(Launch(th, "wt", [out |-> wt, stdout |-> <<>>], cmd),
                                          PyBool(wt = "ok")))

par_start_vm_and_open_a_terminal ==
    \E t \in Threads :
        /\ Busy(t, "start_vm_and_open_a_terminal")
        /\ LET th == threads[t]
               f == Top(th)
               query(as) == Frame("get_vm_status", FALSE, "-", PyNone, "-", as)
               start == Frame("start_vm", TRUE, "-", PyNone, "-", "aStart")
               terminal == Frame("open_terminal", FALSE, f.user, PyNone, "-", "a")
           IN  CASE f.pc = "entry" -> Become(t, Push(Goto(th, "status"), query("aStatus1")))
                 [] f.pc = "status" ->
                    IF ~PyEq(returned(t), running)
                    THEN Become(t, Push(Goto(th, "started"), start))
                    ELSE Become(t, Push(Goto(th, "again"), query("aStatus2")))
                 [] f.pc = "started" -> Become(t, Push(Goto(th, "again"), query("aStatus2")))
                 [] f.pc = "again" ->
                    IF ~PyEq(returned(t), running) THEN Become(t, Pop(th, PyInt1))
                    ELSE Become(t, Push(Goto(th, "terminal"), terminal))
                 [] f.pc = "terminal" -> Become(t, Pop(th, PyInt0))

par_install_guest_additions ==
    \E t \in Threads :
        /\ Busy(t, "install_guest_additions")
        /\ LET th == threads[t]
               f == Top(th)
               mount(port, medium, out) == attach(th.vm, f.controller_name, port, medium, out)
           IN  CASE f.pc = "entry" ->
                    IF ~Truthy(vboxmanage_path) THEN Become(t, Pop(th, PyFalse))
                    ELSE \E ex \in BOOLEAN :
                        LET a == [out |-> IF ex THEN "True" ELSE "False", stdout |-> <<>>]
                            looked == Launch(th, "iso_exists", a, Exists(iso_name, ex))
                        IN  IF ~ex THEN Become(t, Pop(looked, PyFalse))
                            ELSE Become(t, Goto(looked, "info"))
                 [] f.pc = "info" ->
                    \E a \in ParAnswers(ParInfoTexts) :
                        LET cmd == Run(Bin, "showvminfo", th.vm, <<"--machinereadable">>,
                                       InfoTimeout, a.out)
                            asked == Launch(th, "aInfo", a, cmd)
                            found == first_controller(Split(a.stdout, <<NL>>))
                            name == IF Truthy(found) THEN found.v ELSE default_controller
                        IN  IF a.out # "ok" \/ found.k = "raise" THEN Become(t, Pop(asked, PyFalse))
                            ELSE Become(t, [Goto(asked, "port1") EXCEPT
                                              !.stack[Len(th.stack)].controller_name = name])
                 [] f.pc = "port1" ->
                    \E a \in ParAttachAnswers :
                        LET tried == Launch(th, "aAttach1", a, mount("1", iso_name, a.out))
                        IN  CASE a.out = "ok" -> Become(t, Pop(tried, PyTrue))
                              [] a.out = "nonzero" -> Become(t, Goto(tried, "port0"))
                              [] OTHER -> Become(t, Pop(tried, PyFalse))
                 [] f.pc = "port0" ->
                    \E a \in ParAttachAnswers :
                        LET tried == Launch(th, "aAttach0", a, mount("0", iso_name, a.out))
                        IN  CASE a.out = "ok" -> Become(t, Pop(tried, PyTrue))
                              [] a.out = "nonzero" -> Become(t, Goto(tried, "add"))
                              [] OTHER -> Become(t, Pop(tried, PyFalse))
                 [] f.pc = "add" ->
                    \E a \in ParAttachAnswers :
                        LET tried == Launch(th, "aAdd", a, mount("1", "emptydrive", a.out))
                        IN  IF a.out = "ok" THEN Become(t, Goto(tried, "retry"))
                            ELSE Become(t, Pop(tried, PyFalse))
                 [] f.pc = "retry" ->
                    \E a \in ParAttachAnswers :
                        LET tried == Launch(th, "aRetry", a, mount("1", iso_name, a.out))
                        IN  Become(t, Pop(tried, PyBool(a.out = "ok")))

NextPar ==
    \/ par_call
    \/ par_list_vms
    \/ par_start_vm
    \/ par_stop_vm
    \/ par_get_vm_ip
    \/ par_get_vm_status
    \/ par_install_guest_additions
    \/ par_send_message_to_vm
    \/ par_broadcast_message_to_vm
    \/ par_open_terminal
    \/ par_start_vm_and_open_a_terminal

SpecPar == InitPar /\ [][NextPar]_vars

---------------------------------------------------------------------------
(* What the properties read off the last operation *)

Ev == last.ev

\* the positions of the events of a kind and name
Idx(kind, name) == {i \in 1..Len(Ev) : Ev[i].kind = kind /\ Ev[i].name = name}

First(S) == CHOOSE i \in S : \A j \in S : i <= j
Last(S) == CHOOSE i \in S : \A j \in S : j <= i

Located == Truthy(vboxmanage_path)

\* the method fn has returned, called directly or by the branch of main()
Ran(fn, action) ==
    \/ phase = "done" /\ last.fn = fn
    \/ phase = "exited" /\ last.fn = "main" /\ Located /\ Ev[1].args[1] = action

Constructed == phase = "done" /\ last.fn = "__init__"

IsRunning(e) == e.out = "str" /\ e.args = <<"running">>
IsFalse(e) == e.out = "bool" /\ e.args = <<"False">>

Port(e) == e.args[Len(e.args) - 2]
Medium(e) == e.args[Len(e.args)]

---------------------------------------------------------------------------
(* C1..C10 *)

MessageRan == phase = "exited" /\ last.fn = "main" /\ Located /\ Ev[1].args[1] = "message"
PasswordGiven == Ev[1].args[3] \notin {"None", "''"}
BroadcastFailed == \E i \in Idx("return", "broadcast_message_to_vm") : IsFalse(Ev[i])

\* C1: in the message action the broadcast is the first messaging attempt,
\* with or without a password; send_message_to_vm is called only after the
\* broadcast has returned failure and only with a password; it is called once
\* when the broadcast failed and a password is present, and never otherwise.
C1_BroadcastFirstSshOnce ==
    MessageRan =>
        LET b == Idx("call", "broadcast_message_to_vm")
            bret == Idx("return", "broadcast_message_to_vm")
            s == Idx("call", "send_message_to_vm")
        IN  /\ Cardinality(b) = 1
            /\ Cardinality(bret) = 1
            /\ \A i \in s : First(b) < i /\ First(bret) < i /\ IsFalse(Ev[First(bret)])
            /\ \A i \in s : PasswordGiven
            /\ Cardinality(s) = IF BroadcastFailed /\ PasswordGiven THEN 1 ELSE 0
            /\ Cardinality(Idx("run", "ssh")) <= Cardinality(s)

C1_Witness ==
    /\ MessageRan
    /\ PasswordGiven
    /\ \E i \in Idx("run", "guestcontrol") : Ev[i].out = "timeout"
    /\ Cardinality(Idx("call", "send_message_to_vm")) = 1
    /\ \E i \in Idx("run", "ssh") : Ev[i].out = "ok"

SvoRan == Ran("start_vm_and_open_a_terminal", "svo")
StatusReturns == Idx("return", "get_vm_status")

\* C2: in start_vm_and_open_a_terminal, when the first status query returns
\* "running" start_vm is not called and no start command is launched; when it
\* returns anything else start_vm is called once, after that query, with
\* headless=True, and with the binary located it launches one start command
\* of type headless.
C2_StartOnlyIfNotRunning ==
    SvoRan =>
        LET starts == Idx("call", "start_vm")
            cmds == Idx("run", "startvm")
        IN  /\ StatusReturns # {}
            /\ IF IsRunning(Ev[First(StatusReturns)])
               THEN starts = {} /\ cmds = {}
               ELSE /\ Cardinality(starts) = 1
                    /\ \A i \in starts :
                        Ev[i].args = <<"headless=True">> /\ First(StatusReturns) < i
                    /\ Cardinality(cmds) = IF Located THEN 1 ELSE 0
                    /\ \A i \in cmds : Ev[i].args = <<"--type", "headless">>

C2_Witness ==
    /\ SvoRan
    /\ IsRunning(Ev[First(StatusReturns)])
    /\ Idx("call", "start_vm") = {}
    /\ Idx("call", "open_terminal") # {}

\* C3: when the status queried after the start attempt is not "running",
\* open_terminal is not called, no IP query and no terminal is launched, and
\* the method returns its failure code 1.
C3_NoTerminalUnlessRunning ==
    SvoRan =>
        (~IsRunning(Ev[Last(StatusReturns)]) =>
            /\ Idx("call", "open_terminal") = {}
            /\ Idx("call", "get_vm_ip") = {}
            /\ Idx("run", "guestproperty") = {}
            /\ Idx("run", "new-tab") = {}
            /\ PyEq(last.ret, PyInt1))

C3_Witness ==
    /\ SvoRan
    /\ Located
    /\ \E i \in Idx("run", "startvm") : Ev[i].out = "ok"
    /\ ~IsRunning(Ev[Last(StatusReturns)])
    /\ Idx("call", "open_terminal") = {}
    /\ PyEq(last.ret, PyInt1)

\* C4: every call of open_terminal comes after a status query that returned
\* "running" and that was issued after every event of start_vm; the terminal
\* is opened exactly when the last status query returned "running", whatever
\* start_vm returned.
C4_TerminalAfterRequery ==
    SvoRan =>
        LET starts == Idx("call", "start_vm") \cup Idx("return", "start_vm")
                        \cup Idx("run", "startvm")
            queries == Idx("call", "get_vm_status")
        IN  /\ \A i \in Idx("call", "open_terminal") :
                \E j \in StatusReturns :
                    /\ j < i
                    /\ IsRunning(Ev[j])
                    /\ \A k \in starts : k < Last({q \in queries : q < j})
            /\ (Idx("call", "open_terminal") # {}) <=> IsRunning(Ev[Last(StatusReturns)])

C4_Witness ==
    /\ SvoRan
    /\ \E i \in Idx("return", "start_vm") : IsFalse(Ev[i])
    /\ Idx("call", "open_terminal") # {}

StopRan == Ran("stop_vm", "stop") /\ Located

\* C5: with the binary located, stop_vm launches two commands: the warning
\* broadcast to user nhu first and, after the broadcast has returned, the
\* power-control command, whatever the outcome of the warning; stop_vm
\* returns True exactly when the power-control command exits with zero.
C5_WarnThenStop ==
    StopRan =>
        LET cmds == Runs(Ev)
        IN  /\ Len(cmds) = 2
            /\ cmds[1].name = "guestcontrol"
            /\ cmds[1].args = <<"--username", warn_user, "wall", warn_message>>
            /\ cmds[2].name = "controlvm"
            /\ cmds[1].vm = cmds[2].vm
            /\ \A i \in Idx("return", "broadcast_message_to_vm") :
                    \A j \in Idx("run", "controlvm") : i < j
            /\ Cardinality(Idx("return", "broadcast_message_to_vm")) = 1
            /\ PyEq(last.ret, PyBool(cmds[2].out = "ok"))

C5_Witness ==
    /\ StopRan
    /\ \E i \in Idx("run", "guestcontrol") : Ev[i].out = "timeout"
    /\ \E i \in Idx("run", "controlvm") : Ev[i].out = "ok"
    /\ PyEq(last.ret, PyTrue)

InstallRan == Ran("install_guest_additions", "guest")
Attaches == SelectName(Runs(Ev), {"storageattach"})
Failed(e) == e.out \in {"nonzero", "timeout"}

\* C6, as claimed: when the attach on port 1 fails and the attach on port 0
\* succeeds the saga succeeds without the empty-drive fallback; when the
\* attaches on both ports fail the empty-drive fallback is attempted.
C6_Claim ==
    InstallRan =>
        /\ (/\ Len(Attaches) >= 2
            /\ Failed(Attaches[1])
            /\ Port(Attaches[2]) = "0"
            /\ Attaches[2].out = "ok")
                => /\ PyEq(last.ret, PyTrue)
                   /\ \A i \in 1..Len(Attaches) : Medium(Attaches[i]) # "emptydrive"
        /\ (/\ Len(Attaches) >= 2
            /\ Failed(Attaches[1])
            /\ Port(Attaches[2]) = "0"
            /\ Failed(Attaches[2]))
                => \E i \in 1..Len(Attaches) : Medium(Attaches[i]) = "emptydrive"

\* C7, as claimed: a failed attach on port 1, by non-zero exit or by timeout,
\* is followed by the attach on port 0; a failure of both is followed by the
\* empty-drive fallback; the saga succeeds iff some attach of the image
\* succeeded.
C7_Claim ==
    InstallRan =>
        /\ (Len(Attaches) >= 1 /\ Failed(Attaches[1]))
                => Len(Attaches) >= 2 /\ Port(Attaches[2]) = "0"
                        /\ Medium(Attaches[2]) = iso_name
        /\ (Len(Attaches) >= 2 /\ Failed(Attaches[1]) /\ Failed(Attaches[2]))
                => Len(Attaches) >= 3 /\ Medium(Attaches[3]) = "emptydrive"
        /\ PyEq(last.ret, PyTrue) <=>
                \E i \in 1..Len(Attaches) :
                    Medium(Attaches[i]) = iso_name /\ Attaches[i].out = "ok"

last_candidate == common_paths[Len(common_paths)]

\* C8, as claimed: a probe that times out or exits non-zero is followed by
\* the examination of the next candidate, for every candidate but the last;
\* when every probe ended so, None is returned only after the PATH probe and
\* all the existence checks.
C8_Claim ==
    Constructed =>
        /\ \A i \in 1..Len(Ev) :
            (Ev[i].kind = "run" /\ Failed(Ev[i]) /\ Ev[i].bin # last_candidate)
                => \E j \in (i + 1)..Len(Ev) : Ev[j].kind \in {"exists", "run"}
        /\ (~Located /\ \A i \in 1..Len(Ev) : Ev[i].kind = "run" => Failed(Ev[i]))
                => /\ Len(SelectEv(Ev, "exists")) = 1 + Len(common_paths)
                   /\ \E i \in 1..Len(Ev) : Ev[i].kind = "run" /\ Ev[i].bin = path_name

\* C9: when the PATH probe succeeds, the well-known path being absent or its
\* probe having failed, find_vboxmanage returns "VBoxManage" and examines no
\* entry of common_paths.
C9_PathBeforeCommon ==
    Constructed =>
        \A i \in 1..Len(Ev) :
            Ev[i] = probe(path_name, "ok")
                => /\ PyEq(vboxmanage_path, PyStr(<<path_name>>))
                   /\ \A j \in (i + 1)..Len(Ev) : Ev[j].kind = "return"
                   /\ Len(SelectEv(Ev, "exists")) = 1
                   /\ Len(Runs(Ev)) <= 2

C9_Witness ==
    /\ Constructed
    /\ Ev[2] = Exists(well_known_path, FALSE)
    /\ Ev[3] = probe(path_name, "ok")
    /\ PyEq(vboxmanage_path, PyStr(<<path_name>>))

Degraded == phase \in {"done", "exited"} /\ last.fn # "__init__" /\ ~Located

\* the value by which a method reports failure
IsFailure(fn, e) ==
    CASE fn = "list_vms" -> e.out = "list" /\ Len(e.args) = 0
      [] fn \in {"get_vm_status", "get_vm_ip"} -> e.out = "None"
      [] fn = "start_vm_and_open_a_terminal" -> e.out = "int" /\ e.args = <<"1">>
      [] OTHER -> IsFalse(e)

\* C10: when no binary was located, every method returns its failure value
\* (and every method it calls does), main() exits with 1, and nothing is
\* launched or looked up: no command, not even the warning of stop_vm.
C10_DegradedMode ==
    Degraded =>
        /\ Runs(Ev) = <<>>
        /\ SelectEv(Ev, "exists") = <<>>
        /\ \A i \in 1..Len(Ev) : Ev[i].kind = "return" => IsFailure(Ev[i].name, Ev[i])
        /\ last.fn = "main" => exit_code = 1 /\ Len(Ev) = 1
        /\ last.fn # "main" => Len(Returns(Ev)) >= 1

C10_Witness ==
    /\ Degraded
    /\ last.fn = "stop_vm"
    /\ PyEq(last.ret, PyFalse)
    /\ Len(Ev) = 2

---------------------------------------------------------------------------
(* C11..C20 *)

MainRan == phase = "exited" /\ last.fn = "main"
Action == Ev[1].args[1]

\* the operation of the action succeeded: the binary was located and the
\* method returned its success value (for list, which returns [] on failure
\* and for no VM alike, the list command exited with zero)
Succeeded ==
    /\ Located
    /\ CASE Action = "list" -> \E i \in Idx("run", "list") : Ev[i].out = "ok"
         [] Action \in {"ip", "status"} -> last.ret.k # "None"
         [] Action = "svo" -> PyEq(last.ret, PyInt0)
         [] OTHER -> PyEq(last.ret, PyTrue)

\* C11, as claimed: for every action the process exits with 0 when the
\* operation succeeded and with 1 when it failed.
C11_Claim == MainRan => exit_code = (IF Succeeded THEN 0 ELSE 1)

SendRan ==
    /\ Located
    /\ \/ phase = "done" /\ last.fn = "send_message_to_vm"
       \/ MessageRan /\ Idx("call", "send_message_to_vm") # {}

\* get_vm_ip returned no address: None or the empty string
NoAddress(e) == e.out = "None" \/ e.args = <<>>

\* C12: with the binary located, send_message_to_vm asks for the IP once;
\* without an address it returns False at once and launches no ssh; with an
\* address it launches ssh once, after the IP query, for user@address, with
\* the timeout and with the password as input, and returns True exactly when
\* ssh exits with zero.
C12_SshOnceIffAddress ==
    SendRan =>
        LET call == First(Idx("call", "send_message_to_vm"))
            ret == Last(Idx("return", "send_message_to_vm"))
            ip == Idx("return", "get_vm_ip")
            ssh == Idx("run", "ssh")
        IN  /\ Cardinality(ip) = 1
            /\ IF NoAddress(Ev[First(ip)])
               THEN /\ ssh = {}
                    /\ ret = First(ip) + 1
                    /\ IsFalse(Ev[ret])
               ELSE /\ Cardinality(ssh) = 1
                    /\ First(ip) < First(ssh)
                    /\ Ev[First(ssh)].bin = "ssh"
                    /\ Ev[First(ssh)].timeout = SshTimeout
                    /\ Ev[First(ssh)].args =
                          <<Ev[call].args[1], "@">> \o Ev[First(ip)].args
                              \o <<"wall", Ev[call].args[3], "input", Ev[call].args[2]>>
                    /\ Ev[ret] = Return("send_message_to_vm", Ev[call].vm,
                                        PyBool(Ev[First(ssh)].out = "ok"))

C12_Witness ==
    /\ SendRan
    /\ \E i \in Idx("run", "ssh") : Ev[i].out = "ok" /\ Ev[i].args[Len(Ev[i].args)] = "secret"
    /\ PyEq(last.ret, PyTrue)

\* three answers to the guest-property query: the marker of no value, an
\* output with neither marker, and a command that timed out
ip_no_value == [out |-> "ok", stdout |-> <<"No value set!", NL>>]
ip_unparsable == [out |-> "ok", stdout |-> <<"garbage", NL>>]
ip_timed_out == [out |-> "timeout", stdout |-> <<>>]

\* C13, as claimed: with the binary located, get_vm_ip does not return the
\* same value for "no IP available", for an output it cannot parse and for
\* a failed invocation.
C13_Claim ==
    Located =>
        \A vm \in VMNames :
            ~ /\ PyEq(get_vm_ip(vm, ip_no_value).ret, get_vm_ip(vm, ip_unparsable).ret)
              /\ PyEq(get_vm_ip(vm, ip_no_value).ret, get_vm_ip(vm, ip_timed_out).ret)

\* the controller name C14 claims for an answer to the VM-info query: the
\* value of the first line naming an IDE or SATA controller, and the default
\* when the query failed, no line matches, or the line has no value
claimed_controller(aInfo) ==
    IF aInfo.out # "ok" THEN default_controller
    ELSE LET lines == Split(aInfo.stdout, <<NL>>)
             m == {i \in 1..Len(lines) :
                      /\ LineHas(lines[i], ControllerKeyTokens)
                      /\ LineHas(lines[i], IdeTokens) \/ LineHas(lines[i], SataTokens)}
             parts == Split(lines[First(m)], <<EQUALS>>)
         IN  IF m = {} THEN default_controller
             ELSE IF Len(parts) < 2 THEN default_controller
             ELSE IF StripChar(parts[2], QUOTE) = <<>> THEN default_controller
             ELSE StripChar(parts[2], QUOTE)

\* every attach exits with zero
attach_ok == [port \in {"1", "0"} |-> [out |-> "ok", stdout |-> <<>>]]

\* C14, as claimed: with the binary located and the image present, whatever
\* the VM-info query answers, install_guest_additions goes on to the attach
\* on port 1 with the controller named by the first matching line, or with
\* "IDE Controller" when the query failed, no line matches or the line is
\* malformed; with that attach succeeding the saga succeeds.
C14_Claim ==
    Located =>
        \A vm \in VMNames, aInfo \in Answers(InfoTexts) :
            LET r == install_guest_additions(vm, TRUE, aInfo, attach_ok,
                                             attach_ok["1"], attach_ok["1"])
                cmds == SelectName(Runs(r.ev), {"storageattach"})
            IN  /\ Len(cmds) = 1
                /\ cmds[1] = attach(vm, claimed_controller(aInfo), "1", iso_name, "ok")
                /\ PyEq(r.ret, PyTrue)

\* C15: with the binary located, install_guest_additions looks for the image
\* once, before any command; when the image does not exist it returns False
\* right after that look-up and launches no command: no VM-info query, no
\* attach.
C15_IsoFailFast ==
    (InstallRan /\ Located) =>
        LET chk == Idx("exists", iso_name)
            ret == Last(Idx("return", "install_guest_additions"))
        IN  /\ Cardinality(chk) = 1
            /\ \A i \in 1..Len(Ev) : Ev[i].kind = "run" => First(chk) < i
            /\ Ev[First(chk)].out = "False" =>
                    /\ Runs(Ev) = <<>>
                    /\ ret = First(chk) + 1
                    /\ IsFalse(Ev[ret])
                    /\ PyEq(last.ret, PyFalse)

C15_Witness ==
    /\ InstallRan
    /\ Located
    /\ \E i \in Idx("exists", iso_name) : Ev[i].out = "False"
    /\ Runs(Ev) = <<>>
    /\ PyEq(last.ret, PyFalse)

\* an operation of the constructed manager has ended
OperationRan == phase \in {"done", "exited"} /\ last.fn # "__init__"

Between(i, j, kind) == Cardinality({k \in (i + 1)..(j - 1) : Ev[k].kind = kind})

\* the return of the method that launched the command at position i
Enclosing(i) ==
    First({j \in (i + 1)..Len(Ev) :
              Ev[j].kind = "return" /\ Between(i, j, "call") = Between(i, j, "return")})

TimedOut == {i \in 1..Len(Ev) : Ev[i].kind = "run" /\ Ev[i].out = "timeout"}

C16_Returns ==
    OperationRan =>
        /\ \A i \in TimedOut : IsFailure(Ev[Enclosing(i)].name, Ev[Enclosing(i)])
        /\ \A i \in 1..Len(Ev) : Ev[i].kind = "return" => Ev[i].out # "raise"
        /\ last.ret.k # "raise"

C16_PathKept == phase # "new" => vboxmanage_path' = vboxmanage_path

C16_NextStartsClean == phase = "ready" => last = NoOp /\ exit_code = -1

\* C16: when a command launched by an operation of the constructed manager
\* times out, the method that launched it returns its failure value (False,
\* None, []) and nothing is raised, by it or by a method that called it; no
\* step after the construction changes vboxmanage_path; and the manager
\* ready for its next call carries nothing of the calls before it but that
\* path.
C16_TimeoutRecoverable ==
    /\ [](C16_Returns /\ C16_NextStartsClean)
    /\ [][C16_PathKept]_vars

C16_Witness ==
    /\ phase = "done"
    /\ last.fn = "install_guest_additions"
    /\ \E i \in TimedOut : Ev[i].name = "storageattach"
    /\ PyEq(last.ret, PyFalse)
    /\ Located

\* C17: with the binary located, stop_vm launches one power-control command:
\* acpipowerbutton when graceful is true, poweroff when it is false, never
\* both and never a second one after a failure; it returns right after that
\* command, True exactly when the command exits with zero.
C17_OnePowerCommand ==
    StopRan =>
        LET call == First(Idx("call", "stop_vm"))
            ret == Last(Idx("return", "stop_vm"))
            power == Idx("run", "controlvm")
            cmd == Ev[First(power)]
        IN  /\ Cardinality(power) = 1
            /\ cmd.vm = Ev[call].vm
            /\ cmd.timeout = StopTimeout
            /\ Ev[call].args = <<"graceful=True">> <=> cmd.args = <<"acpipowerbutton">>
            /\ Ev[call].args = <<"graceful=False">> <=> cmd.args = <<"poweroff">>
            /\ ret = First(power) + 1
            /\ Ev[ret] = Return("stop_vm", cmd.vm, PyBool(cmd.out = "ok"))

C17_Witness ==
    /\ StopRan
    /\ Ev[First(Idx("call", "stop_vm"))].args = <<"graceful=True">>
    /\ \E i \in Idx("run", "controlvm") :
            Ev[i].args = <<"acpipowerbutton">> /\ Ev[i].out = "nonzero"
    /\ Cardinality(Idx("run", "controlvm")) = 1
    /\ PyEq(last.ret, PyFalse)

\* C18: with the binary located, every call of start_vm, made directly, by
\* main() or by start_vm_and_open_a_terminal, launches one start command, of
\* type headless when headless is true and gui when it is false, and returns
\* right after it, True exactly when the command exits with zero; no start
\* command is launched a second time.
C18_OneStartCommand ==
    (OperationRan /\ Located) =>
        /\ \A c \in Idx("call", "start_vm") :
            /\ c + 2 <= Len(Ev)
            /\ Ev[c + 1].kind = "run"
            /\ Ev[c + 1].name = "startvm"
            /\ Ev[c + 1].vm = Ev[c].vm
            /\ Ev[c + 1].timeout = StartTimeout
            /\ Ev[c].args = <<"headless=True">> <=> Ev[c + 1].args = <<"--type", "headless">>
            /\ Ev[c].args = <<"headless=False">> <=> Ev[c + 1].args = <<"--type", "gui">>
            /\ Ev[c + 2] = Return("start_vm", Ev[c].vm, PyBool(Ev[c + 1].out = "ok"))
        /\ Cardinality(Idx("run", "startvm")) = Cardinality(Idx("call", "start_vm"))

C18_Witness ==
    /\ Ran("start_vm", "start")
    /\ Located
    /\ \E i \in Idx("run", "startvm") :
            Ev[i].args = <<"--type", "gui">> /\ Ev[i].out = "timeout"
    /\ Cardinality(Idx("run", "startvm")) = 1
    /\ PyEq(last.ret, PyFalse)

\* the call of a caller, made alone on the manager, with the answers the
\* caller got
alone(th) ==
    LET f == th.op
        a == th.ans
        aAttach == [port \in {"1", "0"} |-> IF port = "1" THEN a["aAttach1"] ELSE a["aAttach0"]]
    IN  CASE f.fn = "list_vms" -> list_vms(a["a"])
          [] f.fn = "start_vm" -> start_vm(th.vm, f.flag, a["a"])
          [] f.fn = "stop_vm" -> stop_vm(th.vm, f.flag, a["aWarn"], a["a"])
          [] f.fn = "get_vm_ip" -> get_vm_ip(th.vm, a["a"])
          [] f.fn = "get_vm_status" -> get_vm_status(th.vm, a["a"])
          [] f.fn = "broadcast_message_to_vm" ->
                broadcast_message_to_vm(th.vm, f.user, f.message, a["a"])
          [] f.fn = "send_message_to_vm" ->
                send_message_to_vm(th.vm, f.user, f.password, f.message, a["aIp"], a["a"])
          [] f.fn = "open_terminal" -> open_terminal(th.vm, f.user, a["aIp"], a["wt"].out)
          [] f.fn = "start_vm_and_open_a_terminal" ->
                start_vm_and_open_a_terminal(th.vm, f.user, a["aStatus1"], a["aStart"],
                                             a["aStatus2"], a["aIp"], a["wt"].out)
          [] f.fn = "install_guest_additions" ->
                install_guest_additions(th.vm, a["iso_exists"].out = "True", a["aInfo"],
                                        aAttach, a["aAdd"], a["aRetry"])

Concurrent == phase = "concurrent"

C19_SameAsAlone ==
    Concurrent =>
        \A t \in Threads :
            LET th == threads[t]
            IN  /\ th.state = "finished" =>
                    /\ th.ev = alone(th).ev
                    /\ PyEq(th.retval, alone(th).ret)
                /\ th.state = "busy" =>
                    /\ Len(th.ev) <= Len(alone(th).ev)
                    /\ th.ev = SubSeq(alone(th).ev, 1, Len(th.ev))

C19_OwnStateOnly ==
    Concurrent =>
        /\ vboxmanage_path' = vboxmanage_path
        /\ \A t \in Threads, u \in Threads :
                (t # u /\ threads'[t] # threads[t]) => threads'[u] = threads[u]

\* C19: two callers run methods of one manager on different VM names, their
\* steps interleaved between external calls.  The events of each caller
\* (commands launched, calls, returns) and its result are those of the same
\* method run alone with the answers this caller got, at the end and at
\* every step before; a step changes the frames of one caller only and never
\* vboxmanage_path.
C19_Independent == [](C19_SameAsAlone) /\ [][C19_OwnStateOnly]_vars

C19_Witness ==
    /\ Concurrent
    /\ Located
    /\ last.fn = "overlapped"
    /\ \A t \in Threads : threads[t].state = "finished"
    /\ threads[1].op.fn = "start_vm_and_open_a_terminal"
    /\ threads[2].op.fn = "stop_vm"
    /\ threads[1].vm # threads[2].vm
    /\ PyEq(threads[1].retval, PyInt0)
    /\ PyEq(threads[2].retval, PyTrue)

Candidates == {well_known_path, path_name} \cup {common_paths[i] : i \in 1..Len(common_paths)}

C20_Discovery ==
    /\ phase = "new" => vboxmanage_path = PyNone
    /\ Constructed =>
        /\ Cardinality(Idx("call", "find_vboxmanage")) = 1
        /\ Cardinality(Idx("return", "find_vboxmanage")) = 1
        /\ Ev[Len(Ev)] = Return("find_vboxmanage", "-", vboxmanage_path)
    /\ OperationRan =>
        /\ Idx("call", "find_vboxmanage") = {}
        /\ Idx("run", "--version") = {}
        /\ \A i \in 1..Len(Ev) : Ev[i].kind = "exists" => Ev[i].name \notin Candidates
        /\ \A i \in 1..Len(Ev) :
                (Ev[i].kind = "run" /\ Ev[i].bin \notin {"ssh", "wt"}) => Ev[i].bin = Bin

C20_OnlyConstructionSets ==
    vboxmanage_path' # vboxmanage_path =>
        phase = "new" /\ phase' = "done" /\ last'.fn = "__init__"

\* C20: vboxmanage_path is None before the construction; the construction
\* calls find_vboxmanage once and keeps what it returned; no later step
\* changes vboxmanage_path, and no operation, succeeding or failing, calls
\* find_vboxmanage, probes a candidate or looks one up: the commands of every
\* operation are launched with the path the construction found.
C20_PathDiscoveredOnce == [](C20_Discovery) /\ [][C20_OnlyConstructionSets]_vars

C20_Witness ==
    /\ phase = "done"
    /\ last.fn = "get_vm_status"
    /\ PyEq(last.ret, PyNone)
    /\ PyEq(vboxmanage_path, PyStr(<<"/usr/bin/VBoxManage">>))
    /\ \E i \in Idx("run", "showvminfo") :
            Ev[i].bin = "/usr/bin/VBoxManage" /\ Ev[i].out = "nonzero"

---------------------------------------------------------------------------
(* C21..C28 *)

\* the candidates in the order of the search
SearchOrder == <<well_known_path, path_name>> \o common_paths

\* the candidate of a look-up or of a probe
VisitName(e) == IF e.kind = "exists" THEN e.name ELSE e.bin

\* C21: find_vboxmanage probes a file candidate only right after having
\* found that it exists, and never one that does not; it comes to the
\* candidates in the order well-known path, PATH name, common paths, and
\* probes the PATH name whenever it comes to it, that is whenever the
\* well-known path does not exist or its probe failed; it returns a path
\* exactly when a probe succeeded, the path of that probe, which is the last
\* and the only one that succeeded.
C21_ProbeOnlyExisting ==
    Constructed =>
        LET probes == {i \in 1..Len(Ev) : Ev[i].kind = "run"}
            files == {i \in probes : Ev[i].bin # path_name}
            visits == {i \in 1..Len(Ev) :
                          Ev[i].kind = "exists" \/ (Ev[i].kind = "run" /\ Ev[i].bin = path_name)}
        IN  /\ \A i \in probes : Ev[i] = probe(Ev[i].bin, Ev[i].out)
            /\ \A i \in files : Ev[i - 1] = Exists(Ev[i].bin, TRUE)
            /\ \A i \in 1..Len(Ev) :
                    (Ev[i].kind = "exists" /\ Ev[i].out = "False")
                        => (Ev[i + 1].kind # "run" \/ Ev[i + 1].bin = path_name)
            /\ Cardinality(visits) <= Len(SearchOrder)
            /\ \A i \in visits :
                    VisitName(Ev[i]) = SearchOrder[Cardinality({j \in visits : j <= i})]
            /\ (Ev[2] = Exists(well_known_path, FALSE)
                    \/ (Ev[3].kind = "run" /\ Failed(Ev[3])))
                  => \E i \in probes : Ev[i].bin = path_name
            /\ \A i \in probes : Ev[i].out = "ok" =>
                    /\ PyEq(vboxmanage_path, PyStr(<<Ev[i].bin>>))
                    /\ i = Last(probes)
                    /\ \A j \in probes : j < i => Ev[j].out # "ok"
            /\ Located => \E i \in probes : Ev[i].out = "ok"

C21_Witness ==
    /\ Constructed
    /\ Ev[2] = Exists(well_known_path, FALSE)
    /\ Ev[3] = probe(path_name, "nonzero")
    /\ Ev[4] = Exists(common_paths[1], FALSE)
    /\ Ev[5] = Exists(common_paths[2], FALSE)
    /\ Ev[6] = Exists(common_paths[3], TRUE)
    /\ Ev[7] = probe(common_paths[3], "ok")
    /\ PyEq(vboxmanage_path, PyStr(<<common_paths[3]>>))

IsTrue(e) == e.out = "bool" /\ e.args = <<"True">>

\* C22: the message action exits with 0 exactly when the broadcast returned
\* True, or it returned False, a password was given and send_message_to_vm
\* returned True; otherwise it exits with 1.  The broadcast returns True
\* exactly when its command exits with zero, send_message_to_vm only when
\* its ssh command does.
C22_MessageOutcome ==
    MessageRan =>
        LET broadcast == \E i \in Idx("return", "broadcast_message_to_vm") : IsTrue(Ev[i])
            ssh == \E i \in Idx("return", "send_message_to_vm") : IsTrue(Ev[i])
        IN  /\ exit_code \in {0, 1}
            /\ exit_code = 0 <=> (broadcast \/ (~broadcast /\ PasswordGiven /\ ssh))
            /\ exit_code = 0 <=> PyEq(last.ret, PyTrue)
            /\ exit_code = 1 <=> PyEq(last.ret, PyFalse)
            /\ broadcast <=> \E i \in Idx("run", "guestcontrol") : Ev[i].out = "ok"
            /\ ssh => \E i \in Idx("run", "ssh") : Ev[i].out = "ok"

C22_Witness ==
    /\ MessageRan
    /\ PasswordGiven
    /\ \E i \in Idx("run", "guestcontrol") : Ev[i].out = "nonzero"
    /\ \E i \in Idx("run", "ssh") : Ev[i].out = "nonzero"
    /\ exit_code = 1

\* the text of a line between its first quote and its second one, or the end
\* of the line when it has one quote only
quoted(line) ==
    LET i == First(Occurs(line, <<QUOTE>>))
        rest == SubSeq(line, i + 1, Len(line))
    IN  IF Contains(rest, <<QUOTE>>)
        THEN SubSeq(rest, 1, First(Occurs(rest, <<QUOTE>>)) - 1)
        ELSE rest

\* the names C23 claims for an output: one per line with a quote, in order
RECURSIVE claimed_names(_)
claimed_names(lines) ==
    IF lines = <<>> THEN <<>>
    ELSE IF Contains(Head(lines), <<QUOTE>>)
         THEN <<quoted(Head(lines))>> \o claimed_names(Tail(lines))
         ELSE claimed_names(Tail(lines))

\* what C23 claims list_vms returns for an answer to its command
claimed_list(a) ==
    IF a.out = "ok" THEN PyList(claimed_names(Split(a.stdout, <<NL>>))) ELSE PyList(<<>>)

ListRan == Ran("list_vms", "list") /\ Located

\* C23: with the binary located, for every answer to the list command,
\* list_vms launches that one command and returns a list: for an output, one
\* name per line that has a double quote, the text between the first and the
\* second quote, in the order of the lines, blank and unquoted lines giving
\* nothing; for a non-zero exit, a timeout or another error, the empty list.
\* A call that has returned has returned one of these lists.
C23_ListParse ==
    /\ Located =>
        \A a \in Answers(ListTexts) :
            /\ PyEq(list_vms(a).ret, claimed_list(a))
            /\ Runs(list_vms(a).ev) = <<Run(Bin, "list", "-", <<"vms">>, ListTimeout, a.out)>>
    /\ ListRan =>
        /\ last.ret.k = "list"
        /\ \E a \in Answers(ListTexts) :
            /\ PyEq(last.ret, claimed_list(a))
            /\ \A i \in Idx("run", "list") : Ev[i].out = a.out
        /\ (\E i \in Idx("run", "list") : Ev[i].out # "ok") => PyEq(last.ret, PyList(<<>>))

C23_Witness ==
    /\ ListRan
    /\ \E i \in Idx("run", "list") : Ev[i].out = "ok"
    /\ PyEq(last.ret, PyList(<< <<"db-01">>, <<"web-01">> >>))

\* a value without the quote before it and the quote after it
unquoted(v) ==
    LET l == IF Len(v) > 0 /\ Head(v) = QUOTE THEN Tail(v) ELSE v
    IN  IF Len(l) > 0 /\ l[Len(l)] = QUOTE THEN SubSeq(l, 1, Len(l) - 1) ELSE l

\* what C24 claims get_vm_status returns for an answer to its command
claimed_state(a) ==
    LET lines == Split(a.stdout, <<NL>>)
        hits == {i \in 1..Len(lines) : StartsWith(lines[i], <<"VMState", EQUALS>>)}
    IN  IF a.out # "ok" \/ hits = {} THEN PyNone
        ELSE PyStr(unquoted(SubSeq(lines[First(hits)], 3, Len(lines[First(hits)]))))

StatusRan == Ran("get_vm_status", "showvminfo") /\ Located

\* C24: with the binary located, for every answer to the VM info command,
\* get_vm_status launches that one command and returns the unquoted value of
\* the first output line that begins with VMState=, and None when the output
\* has no such line or the command exits non-zero, times out or cannot be
\* launched; it never raises.  A call that has returned has returned such a
\* value.
C24_StatusParse ==
    /\ Located =>
        \A a \in Answers(InfoTexts) :
            /\ PyEq(get_vm_status("vm", a).ret, claimed_state(a))
            /\ get_vm_status("vm", a).ret.k \in {"None", "str"}
            /\ Runs(get_vm_status("vm", a).ev) =
                   <<Run(Bin, "showvminfo", "vm", <<"--machinereadable">>, StatusTimeout, a.out)>>
    /\ StatusRan =>
        /\ last.ret.k \in {"None", "str"}
        /\ \E a \in Answers(InfoTexts) :
            /\ PyEq(last.ret, claimed_state(a))
            /\ \A i \in Idx("run", "showvminfo") : Ev[i].out = a.out
        /\ (\E i \in Idx("run", "showvminfo") : Ev[i].out # "ok") => PyEq(last.ret, PyNone)

C24_Witness ==
    /\ StatusRan
    /\ \E i \in Idx("run", "showvminfo") : Ev[i].out = "ok"
    /\ PyEq(last.ret, PyStr(<<"poweroff">>))

HasTimeout(e) == e.timeout # NoTimeout

\* C25: every command that has been launched, the interactive terminal
\* session included, was launched with a timeout.
C25_Claim == \A i \in 1..Len(Ev) : Ev[i].kind = "run" => HasTimeout(Ev[i])

\* every command but the terminal session has its timeout
C25_AllButTerminal ==
    \A i \in 1..Len(Ev) : (Ev[i].kind = "run" /\ Ev[i].bin # "wt") => HasTimeout(Ev[i])

EmptyDrives == {i \in 1..Len(Attaches) : Medium(Attaches[i]) = "emptydrive"}

\* C26: in install_guest_additions the empty drive is created at most once,
\* on port 1, and only after the attach of the image on port 1 and then the
\* one on port 0 have both failed; another attach of the image, on port 1,
\* follows only a creation that succeeded; a creation that failed is the last
\* command and the saga returns False.
C26_FallbackOrder ==
    InstallRan =>
        /\ Len(Attaches) <= 4
        /\ \A i \in EmptyDrives :
            /\ i = 3
            /\ Port(Attaches[3]) = "1"
            /\ Port(Attaches[1]) = "1" /\ Medium(Attaches[1]) = iso_name /\ Failed(Attaches[1])
            /\ Port(Attaches[2]) = "0" /\ Medium(Attaches[2]) = iso_name /\ Failed(Attaches[2])
            /\ Attaches[3].out # "ok" =>
                /\ Len(Attaches) = 3
                /\ Last(Idx("run", "storageattach")) = Len(Ev) - 1
                /\ PyEq(last.ret, PyFalse)
        /\ Len(Attaches) >= 3 => EmptyDrives = {3}
        /\ Len(Attaches) = 4 =>
            /\ Attaches[3].out = "ok"
            /\ Port(Attaches[4]) = "1" /\ Medium(Attaches[4]) = iso_name
            /\ PyEq(last.ret, PyBool(Attaches[4].out = "ok"))

C26_Witness ==
    /\ InstallRan
    /\ Len(Attaches) = 3
    /\ Attaches[1].out = "nonzero" /\ Attaches[2].out = "nonzero"
    /\ Medium(Attaches[3]) = "emptydrive" /\ Attaches[3].out = "nonzero"
    /\ PyEq(last.ret, PyFalse)

TerminalReturns == Idx("return", "open_terminal")

\* C27: start_vm_and_open_a_terminal queries the status twice, and when the
\* second query returns "running" it calls open_terminal once and returns 0,
\* whether open_terminal returned True or False: without an address, and
\* with a terminal that could not be launched, the code is 0 all the same.
C27_TerminalOutcomeIgnored ==
    SvoRan =>
        /\ Cardinality(StatusReturns) = 2
        /\ IsRunning(Ev[Last(StatusReturns)]) =>
            /\ Cardinality(TerminalReturns) = 1
            /\ \A i \in TerminalReturns :
                /\ Last(StatusReturns) < i
                /\ IsTrue(Ev[i]) \/ IsFalse(Ev[i])
                /\ IsTrue(Ev[i]) <=> \E j \in Idx("run", "new-tab") : Ev[j].out = "ok"
            /\ PyEq(last.ret, PyInt0)

C27_Witness ==
    /\ SvoRan
    /\ IsRunning(Ev[Last(StatusReturns)])
    /\ \E i \in TerminalReturns : IsFalse(Ev[i])
    /\ Idx("run", "new-tab") = {}
    /\ PyEq(last.ret, PyInt0)

Launched(name) == Cardinality(Idx("run", name))
Commands == Len(Runs(Ev))

\* C28: every operation has returned after a bounded number of commands,
\* whatever their outcomes: stop_vm after at most 2 (warning, power control),
\* install_guest_additions after at most 5 (one VM info query, the attaches
\* on two ports, one empty drive, one more attach), the message action after
\* at most 3 (broadcast, IP query, remote shell), start_vm_and_open_a_terminal
\* after at most 5 (status, start, status, IP query, terminal), every other
\* operation after at most 2; no command is launched more often than the
\* sequence has it.
C28_BoundedCommands ==
    /\ OperationRan =>
        /\ phase = "done" => Ev[Len(Ev)].kind = "return"
        /\ Commands <= 5
    /\ Ran("stop_vm", "stop") =>
        /\ Commands <= 2
        /\ Launched("guestcontrol") <= 1 /\ Launched("controlvm") <= 1
    /\ InstallRan =>
        /\ Commands <= 5
        /\ Launched("showvminfo") <= 1 /\ Launched("storageattach") <= 4
        /\ Commands = Launched("showvminfo") + Launched("storageattach")
    /\ MessageRan =>
        /\ Commands <= 3
        /\ Launched("guestcontrol") <= 1 /\ Launched("guestproperty") <= 1
        /\ Launched("ssh") <= 1
        /\ Commands = Launched("guestcontrol") + Launched("guestproperty") + Launched("ssh")
    /\ SvoRan =>
        /\ Commands <= 5
        /\ Launched("showvminfo") <= 2 /\ Launched("startvm") <= 1
        /\ Launched("guestproperty") <= 1 /\ Launched("new-tab") <= 1
        /\ Commands = Launched("showvminfo") + Launched("startvm")
                        + Launched("guestproperty") + Launched("new-tab")
    /\ (OperationRan /\ ~InstallRan /\ ~MessageRan /\ ~SvoRan) => Commands <= 2

C28_Witness ==
    /\ InstallRan
    /\ Commands = 5
    /\ Launched("showvminfo") = 1 /\ Len(Attaches) = 4
    /\ Attaches[4].out = "timeout"
    /\ PyEq(last.ret, PyFalse)

====
